---- MODULE Spec2Model ----
(***************************************************************************)
(* A model of the bridge core of orbit_bhyve/mqtt_client.py                *)
(* (class BhyveMQTTClient): the connection supervisor, the subscription    *)
(* registry, the message router with the device state store, the command   *)
(* validator, and the publisher with the retained-message tracker.         *)
(*                                                                         *)
(* Conventions.  A JSON value is a record [t, s, n, f, l]: its type tag,   *)
(* its string, its number, its object (a function from keys to JSON        *)
(* values) and its list.  A payload is the text of a message: malformed    *)
(* text, the empty text, or the text of a JSON value.  A topic is the      *)
(* sequence of its segments, bhyve/device/d1/status being                  *)
(* <<"bhyve", "device", "d1", "status">>, so that split('/'), startswith   *)
(* and endswith are computed on the segments.  An operation that can raise *)
(* returns [raised, v].                                                    *)
(***************************************************************************)
EXTENDS Integers, Sequences, FiniteSets, TLC

(***************************************************************************)
(* JSON values                                                             *)
(***************************************************************************)
JStr(s) == [t |-> "str", s |-> s, n |-> 0, f |-> <<>>, l |-> <<>>]
JNum(n) == [t |-> "num", s |-> "", n |-> n, f |-> <<>>, l |-> <<>>]
JBool(b) == [t |-> "bool", s |-> "", n |-> IF b THEN 1 ELSE 0, f |-> <<>>, l |-> <<>>]
JNull == [t |-> "null", s |-> "", n |-> 0, f |-> <<>>, l |-> <<>>]
JList(l) == [t |-> "list", s |-> "", n |-> 0, f |-> <<>>, l |-> l]
JObj(f) == [t |-> "obj", s |-> "", n |-> 0, f |-> f, l |-> <<>>]
EmptyObj == JObj(<<>>)

IsObj(v) == v.t = "obj"
Keys(v) == DOMAIN v.f

\* dict.get(k, default) of an object
DictGet(v, k, default) == IF k \in Keys(v) THEN v.f[k] ELSE default
\* d[k] = x of an object
DictSet(v, k, x) == JObj((k :> x) @@ v.f)

Returned(v) == [raised |-> FALSE, v |-> v]
Raised(msg) == [raised |-> TRUE, v |-> JStr(msg)]

(***************************************************************************)
(* Payloads: the text json.loads is given                                  *)
(***************************************************************************)
Malformed == [k |-> "bad", v |-> JNull]
EmptyText == [k |-> "empty", v |-> JNull]
Text(v) == [k |-> "json", v |-> v]

\* json.loads: the empty text and malformed text raise JSONDecodeError
json_loads(p) == IF p.k = "json" THEN Returned(p.v) ELSE Raised("JSONDecodeError")

(***************************************************************************)
(* Command validator                                                       *)
(***************************************************************************)
CommandProperties == {"time", "state"}
\* a schema whose enum lists the upper-case spellings alone
StateEnumUpperOnly == {"ON", "OFF"}
StateEnum == {"ON", "OFF", "on", "off"}
IfStateEnum == {"ON", "on"}
TimeMinimum == 1
TimeMaximum == 999

\* str.upper() on the spellings the model draws
UpperTable ==
    ("ON" :> "ON") @@ ("on" :> "ON") @@ ("On" :> "ON") @@ ("oN" :> "ON")
    @@ ("OFF" :> "OFF") @@ ("off" :> "OFF") @@ ("Off" :> "OFF") @@ ("oFf" :> "OFF")
    @@ ("MAYBE" :> "MAYBE") @@ ("maybe" :> "MAYBE") @@ ("" :> "")
Upper(s) == UpperTable[s]

\* properties.time: {"type": "number", "minimum": 1, "maximum": 999}
TimeSchemaOk(c) ==
    "time" \in Keys(c) =>
        /\ c.f["time"].t = "num"
        /\ c.f["time"].n >= TimeMinimum
        /\ c.f["time"].n <= TimeMaximum

\* properties.state: {"type": "string", "enum": ["ON", "OFF", "on", "off"]}
StateSchemaOk(c) ==
    "state" \in Keys(c) =>
        /\ c.f["state"].t = "str"
        /\ c.f["state"].s \in StateEnum

\* a schema without its if/then clause
IfThenSchemaDropped(c) == TRUE
\* "if": state is present and one of ["ON", "on"]; "then": time is required
IfThenSchemaOk(c) ==
    ("state" \in Keys(c) /\ c.f["state"].t = "str" /\ c.f["state"].s \in IfStateEnum)
        => "time" \in Keys(c)

\* Draft7Validator(COMMAND_SCHEMA).validate(command) raises nothing
SchemaValid(c) ==
    /\ IsObj(c)
    /\ TimeSchemaOk(c)
    /\ StateSchemaOk(c)
    /\ IfThenSchemaOk(c)
    /\ "state" \in Keys(c)
    /\ Keys(c) \subseteq CommandProperties

\* validate_command(message) for a text message
validate_command(message) ==
    LET parsed == json_loads(message) IN
    IF parsed.raised THEN Raised("Invalid JSON")
    ELSE IF ~SchemaValid(parsed.v) THEN Raised("Command validation failed")
    ELSE Returned(DictSet(parsed.v, "state", JStr(Upper(parsed.v.f["state"].s))))

(***************************************************************************)
(* Topics                                                                  *)
(***************************************************************************)
TopicOnline == <<"bhyve", "online">>
TopicAlive == <<"bhyve", "alive">>
TopicDevices == <<"bhyve", "devices">>
TopicDeviceRefresh == <<"bhyve", "device", "refresh">>
\* f"{TOPICS['device']}/{device_id}/<leaf>"
DeviceTopic(device_id, leaf) == <<"bhyve", "device", device_id, leaf>>

\* str(n) of a station number, and int(s) of a topic segment
StationStr == (0 :> "0") @@ (1 :> "1") @@ (2 :> "2")
IntTable == ("0" :> 0) @@ ("1" :> 1) @@ ("2" :> 2) @@ ("-1" :> -1)
ParseInt(s) == IF s \in DOMAIN IntTable THEN Returned(JNum(IntTable[s])) ELSE Raised("ValueError")

\* f"{TOPICS['device']}/{device_id}/zone/{zone_number}"
ZoneTopic(device_id, zone_number) == <<"bhyve", "device", device_id, "zone", StationStr[zone_number]>>
\* f"{TOPICS['device']}/{device_id}/zone/{station}/set"
ZoneSetTopic(device_id, station) == ZoneTopic(device_id, station) \o <<"set">>

\* topic.startswith("bhyve/device/")
StartsWithDevice(topic) == Len(topic) >= 3 /\ topic[1] = "bhyve" /\ topic[2] = "device"
\* topic.endswith("/" + leaf)
EndsWith(topic, leaf) == Len(topic) >= 2 /\ topic[Len(topic)] = leaf
\* '/zone/' in topic
ContainsZone(topic) == \E i \in 2..(Len(topic) - 1) : topic[i] = "zone"
\* f"/device/{device_id}/zone/" in topic
ContainsDeviceZone(topic, device_id) ==
    \E i \in 2..(Len(topic) - 3) :
        topic[i] = "device" /\ topic[i + 1] = device_id /\ topic[i + 2] = "zone"

(***************************************************************************)
(* Events: the calls of _trigger_event, in order                           *)
(***************************************************************************)
Fired(type, dev, topic, data) == [type |-> type, dev |-> dev, topic |-> topic, data |-> data]

(***************************************************************************)
(* Zone control commands                                                   *)
(***************************************************************************)
\* a translation that converts the minutes of the command to seconds
ConstructWateringSeconds(device_id, station, command) ==
    JObj([event |-> JStr("change_mode"),
          device_id |-> JStr(device_id),
          mode |-> JStr("manual"),
          stations |-> JList(IF command.f["state"] = JStr("ON")
                             THEN <<JObj([station |-> JNum(station),
                                          run_time |-> JNum(command.f["time"].n * 60)])>>
                             ELSE <<>>)])

\* construct_watering_message (the timestamp, the wall clock's, is left out)
construct_watering_message(device_id, station, command) ==
    JObj([event |-> JStr("change_mode"),
          device_id |-> JStr(device_id),
          mode |-> JStr("manual"),
          stations |-> JList(IF command.f["state"] = JStr("ON")
                             THEN <<JObj([station |-> JNum(station),
                                          run_time |-> command.f["time"]])>>
                             ELSE <<>>)])

\* not device_id or device_id.strip() == ''
IsBlank(device_id) == device_id \in {"", " "}

\* an except branch that reports the failure as a command_error
ValidationErrorAsCommandError(topic, msg) == <<Fired("command_error", "", topic, JStr(msg))>>
\* except ValueError: _trigger_event('command_validation_error', topic, str(e))
ValidationError(topic, msg) == <<Fired("command_validation_error", "", topic, JStr(msg))>>

\* _handle_zone_control_command: the events it fires
HandleZoneControlCommand(topic, payload) ==
    IF Len(topic) < 6 THEN ValidationError(topic, "Invalid zone control topic format")
    ELSE LET device_id == topic[3]
             station == ParseInt(topic[5])
             command == validate_command(payload)
         IN IF IsBlank(device_id) THEN ValidationError(topic, "Invalid device ID in topic")
            ELSE IF station.raised \/ station.v.n < 0
                 THEN ValidationError(topic, "Invalid station number")
            ELSE IF command.raised THEN ValidationError(topic, command.v.s)
            ELSE <<Fired("zone_control_command", device_id, <<>>,
                         JObj([station |-> station.v,
                               command |-> command.v,
                               ws_message |-> construct_watering_message(
                                                  device_id, station.v.n, command.v)]))>>

(***************************************************************************)
(* Message router and device state store                                   *)
(***************************************************************************)
Routed(devs, evs) == [devices |-> devs, events |-> evs]

\* if device_id not in self.devices: self.devices[device_id] = {}
EnsureRecord(devs, device_id) ==
    IF device_id \in DOMAIN devs THEN devs ELSE (device_id :> EmptyObj) @@ devs

\* dict.update(other): an object is merged key by key; an empty list or an empty
\* string is an empty sequence of pairs; any other JSON value raises
\* an update that keeps the incoming keys alone
DictUpdateReplace(rec, other) == other
DictUpdateMerge(rec, other) == JObj(other.f @@ rec.f)
DictUpdate(rec, other) ==
    IF ~IsObj(rec) THEN Raised("AttributeError")
    ELSE IF IsObj(other) THEN Returned(DictUpdateMerge(rec, other))
    ELSE IF other = JList(<<>>) \/ other = JStr("") THEN Returned(rec)
    ELSE Raised("TypeError")

\* topic ends /status
\* a status handler that creates the record before it parses the payload
StatusCreatesRecordFirst(devs, device_id, payload) ==
    LET parsed == IF payload.k = "empty" THEN Returned(EmptyObj) ELSE json_loads(payload)
        d1 == EnsureRecord(devs, device_id)
    IN IF parsed.raised THEN Routed(d1, <<>>)
       ELSE LET upd == DictUpdate(d1[device_id], parsed.v)
            IN IF upd.raised THEN Routed(d1, <<>>)
               ELSE Routed([d1 EXCEPT ![device_id] = upd.v],
                           <<Fired("device_status", device_id, <<>>, parsed.v)>>)
HandleStatus(devs, device_id, payload) ==
    LET parsed == IF payload.k = "empty" THEN Returned(EmptyObj) ELSE json_loads(payload) IN
    IF parsed.raised THEN Routed(devs, <<>>)
    ELSE LET d1 == EnsureRecord(devs, device_id)
             upd == DictUpdate(d1[device_id], parsed.v)
         IN IF upd.raised THEN Routed(d1, <<>>)
            ELSE Routed([d1 EXCEPT ![device_id] = upd.v],
                        <<Fired("device_status", device_id, <<>>, parsed.v)>>)

\* topic ends /details
\* a details handler that merges into an existing object
HandleDetailsMerge(devs, device_id, device_data) ==
    IF device_id \in DOMAIN devs /\ IsObj(devs[device_id]) /\ IsObj(device_data)
    THEN (device_id :> JObj(device_data.f @@ devs[device_id].f)) @@ devs
    ELSE (device_id :> device_data) @@ devs
HandleDetailsStore(devs, device_id, device_data) == (device_id :> device_data) @@ devs
HandleDetails(devs, device_id, payload) ==
    LET parsed == json_loads(payload) IN
    IF parsed.raised THEN Routed(devs, <<>>)
    ELSE Routed(HandleDetailsStore(devs, device_id, parsed.v),
                <<Fired("device_details", device_id, <<>>, parsed.v)>>)

\* the watering_status written by watering_in_progress_notification
WateringInProgress(m) ==
    JObj([status |-> JStr("watering_in_progress"),
          current_station |-> DictGet(m, "current_station", JNull),
          run_time |-> DictGet(m, "run_time", JNull),
          total_run_time_sec |-> DictGet(m, "total_run_time_sec", JNull),
          started_watering_station_at |-> DictGet(m, "started_watering_station_at", JNull)])

\* 'watering_status' in record: a key test on an object, a membership test that
\* finds nothing on a list or a string, TypeError on a number, a boolean or null
HasWateringStatus(rec) ==
    IF IsObj(rec) THEN Returned(JBool("watering_status" \in Keys(rec)))
    ELSE IF rec.t \in {"list", "str"} THEN Returned(JBool(FALSE))
    ELSE Raised("TypeError")

\* the record after watering_complete: the status field alone is set to idle
WateringIdle(rec) ==
    DictSet(rec, "watering_status", DictSet(rec.f["watering_status"], "status", JStr("idle")))

\* _handle_realtime_message; every exception is caught and logged
HandleRealtime(devs, device_id, m) ==
    IF ~IsObj(m) THEN Routed(devs, <<>>)
    ELSE LET event_type == DictGet(m, "event", JNull)
             d1 == EnsureRecord(devs, device_id)
         IN
         IF event_type = JStr("watering_in_progress_notification") THEN
             IF ~IsObj(d1[device_id]) THEN Routed(d1, <<>>)
             ELSE Routed([d1 EXCEPT ![device_id] = DictSet(@, "watering_status", WateringInProgress(m))],
                         <<Fired("watering_started", device_id, <<>>, m)>>)
         ELSE IF event_type = JStr("watering_complete") THEN
             IF device_id \notin DOMAIN devs
             THEN Routed(devs, <<Fired("watering_completed", device_id, <<>>, m)>>)
             ELSE LET has == HasWateringStatus(devs[device_id]) IN
                  IF has.raised THEN Routed(devs, <<>>)
                  ELSE IF has.v = JBool(FALSE)
                       THEN Routed(devs, <<Fired("watering_completed", device_id, <<>>, m)>>)
                  ELSE IF ~IsObj(devs[device_id].f["watering_status"]) THEN Routed(devs, <<>>)
                  ELSE Routed([devs EXCEPT ![device_id] = WateringIdle(@)],
                              <<Fired("watering_completed", device_id, <<>>, m)>>)
         ELSE IF event_type = JStr("change_mode") THEN
             IF ~IsObj(d1[device_id]) THEN Routed(d1, <<>>)
             ELSE Routed([d1 EXCEPT ![device_id] = DictSet(@, "mode", DictGet(m, "mode", JNull))],
                         <<Fired("mode_changed", device_id, <<>>, m)>>)
         ELSE Routed(devs, <<>>)

\* topic ends /message
HandleMessage(devs, device_id, payload) ==
    LET parsed == json_loads(payload) IN
    IF parsed.raised THEN Routed(devs, <<>>)
    ELSE LET r == HandleRealtime(devs, device_id, parsed.v) IN
         Routed(r.devices,
                r.events \o <<Fired("device_message", device_id, <<>>, parsed.v)>>)

\* _handle_device_message
HandleDeviceMessage(devs, topic, payload) ==
    IF Len(topic) < 3 THEN Routed(devs, <<>>)
    ELSE LET device_id == topic[3] IN
         IF ContainsZone(topic) /\ EndsWith(topic, "set")
         THEN Routed(devs, HandleZoneControlCommand(topic, payload))
         ELSE IF EndsWith(topic, "status") THEN HandleStatus(devs, device_id, payload)
         ELSE IF EndsWith(topic, "details") THEN HandleDetails(devs, device_id, payload)
         ELSE IF EndsWith(topic, "message") THEN HandleMessage(devs, device_id, payload)
         ELSE Routed(devs, <<>>)

\* a devices list handler that creates a record for the first id of the list
DevicesListCreatesRecords(devs, payload) ==
    LET parsed == json_loads(payload) IN
    IF parsed.raised THEN Routed(devs, <<>>)
    ELSE Routed(IF parsed.v.t = "list" /\ parsed.v.l # <<>>
                THEN EnsureRecord(devs, parsed.v.l[1].s) ELSE devs,
                <<Fired("devices_list", "", <<>>, parsed.v)>>)

\* _handle_devices_list
HandleDevicesList(devs, payload) ==
    LET parsed == json_loads(payload) IN
    IF parsed.raised THEN Routed(devs, <<>>)
    ELSE Routed(devs, <<Fired("devices_list", "", <<>>, parsed.v)>>)

\* _on_message
RouteMessage(devs, topic, payload) ==
    IF StartsWithDevice(topic) THEN HandleDeviceMessage(devs, topic, payload)
    ELSE IF topic = TopicDevices THEN HandleDevicesList(devs, payload)
    ELSE Routed(devs, <<>>)

(***************************************************************************)
(* Exceptions in message handling: what each try block lets through        *)
(***************************************************************************)
\* the outcome of a call that raised nothing and returned None
Normal == Returned(JNull)

\* an except clause that catches json.JSONDecodeError alone
ExceptJSONDecodeError(r) == IF r.raised /\ r.v = JStr("JSONDecodeError") THEN Normal ELSE r
\* except ValueError: JSONDecodeError is a ValueError
ExceptValueError(r) ==
    IF r.raised /\ r.v \in {JStr("ValueError"), JStr("JSONDecodeError")} THEN Normal ELSE r
\* a try block without an except clause: every exception goes through
ExceptNothing(r) == r
\* except Exception: the exception is logged and the function goes on
ExceptException(r) == IF r.raised THEN Normal ELSE r

\* the first exception of the outcomes rs, or Normal when none raised
RECURSIVE FirstRaised(_)
FirstRaised(rs) ==
    IF rs = <<>> THEN Normal
    ELSE IF Head(rs).raised THEN Head(rs) ELSE FirstRaised(Tail(rs))

\* _trigger_event(event_type, *args) with the handlers registered: a handler
\* that raises is caught
_trigger_event(handlers, event_type) ==
    ExceptException(IF event_type \in DOMAIN handlers /\ handlers[event_type] = "raises"
                    THEN Raised("RuntimeError")
                    ELSE Normal)
\* the _trigger_event calls for the events evs, one after the other
TriggerEach(handlers, evs) ==
    FirstRaised([i \in DOMAIN evs |-> _trigger_event(handlers, evs[i].type)])

\* the try block of _handle_zone_control_command: a ValueError for a topic or
\* a payload that is refused, else the zone_control_command event
ZoneControlTry(handlers, topic, payload) ==
    LET evs == HandleZoneControlCommand(topic, payload) IN
    IF evs[1].type = "command_validation_error" THEN Raised("ValueError")
    ELSE TriggerEach(handlers, evs)
\* _handle_zone_control_command: both except clauses fire an event
_handle_zone_control_command(handlers, topic, payload) ==
    LET body == ZoneControlTry(handlers, topic, payload) IN
    IF body.raised /\ ExceptValueError(body) = Normal
    THEN _trigger_event(handlers, "command_validation_error")
    ELSE IF body.raised /\ ExceptException(body) = Normal
    THEN _trigger_event(handlers, "command_error")
    ELSE body

\* the try block of _handle_realtime_message: message_data.get raises on a
\* payload that is not an object, the writes raise on a record that is not
\* one, and the event is fired last
RealtimeTry(devs, handlers, device_id, m) ==
    IF ~IsObj(m) THEN Raised("AttributeError")
    ELSE LET r == HandleRealtime(devs, device_id, m)
             fires == DictGet(m, "event", JNull) \in
                          { JStr("watering_in_progress_notification"),
                            JStr("watering_complete"), JStr("change_mode") }
         IN IF fires /\ r.events = <<>> THEN Raised("TypeError")
            ELSE TriggerEach(handlers, r.events)
_handle_realtime_message(devs, handlers, device_id, m) ==
    ExceptException(RealtimeTry(devs, handlers, device_id, m))

\* the try block of _handle_device_message
DeviceMessageTry(devs, handlers, topic, payload) ==
    IF Len(topic) < 3 THEN Normal
    ELSE LET device_id == topic[3] IN
         IF ContainsZone(topic) /\ EndsWith(topic, "set")
         THEN _handle_zone_control_command(handlers, topic, payload)
         ELSE IF EndsWith(topic, "status")
         THEN LET parsed == IF payload.k = "empty" THEN Returned(EmptyObj)
                            ELSE json_loads(payload) IN
              IF parsed.raised THEN parsed
              ELSE LET upd == DictUpdate(EnsureRecord(devs, device_id)[device_id], parsed.v) IN
                   IF upd.raised THEN upd
                   ELSE _trigger_event(handlers, "device_status")
         ELSE IF EndsWith(topic, "details")
         THEN IF json_loads(payload).raised THEN json_loads(payload)
              ELSE _trigger_event(handlers, "device_details")
         ELSE IF EndsWith(topic, "message")
         THEN LET parsed == json_loads(payload) IN
              IF parsed.raised THEN parsed
              ELSE FirstRaised(<< _handle_realtime_message(devs, handlers, device_id, parsed.v),
                                  _trigger_event(handlers, "device_message") >>)
         ELSE Normal
_handle_device_message(devs, handlers, topic, payload) ==
    ExceptException(ExceptJSONDecodeError(DeviceMessageTry(devs, handlers, topic, payload)))

\* _handle_devices_list: json.JSONDecodeError alone is caught
_handle_devices_list(handlers, payload) ==
    ExceptJSONDecodeError(IF json_loads(payload).raised THEN json_loads(payload)
                          ELSE _trigger_event(handlers, "devices_list"))

\* _on_message: what the callback returns to the network loop, or raises
_on_message(devs, handlers, topic, payload) ==
    ExceptException(IF StartsWithDevice(topic)
                    THEN _handle_device_message(devs, handlers, topic, payload)
                    ELSE IF topic = TopicDevices THEN _handle_devices_list(handlers, payload)
                    ELSE Normal)

(***************************************************************************)
(* Device state store accessors                                            *)
(***************************************************************************)
\* self.devices.get(device_id, {})
get_device_status(devs, device_id) ==
    IF device_id \in DOMAIN devs THEN devs[device_id] ELSE EmptyObj

\* device.get('watering_status', {}): AttributeError unless device is an object
WateringStatusOf(devs, device_id) ==
    LET device == get_device_status(devs, device_id) IN
    IF ~IsObj(device) THEN Raised("AttributeError")
    ELSE Returned(DictGet(device, "watering_status", EmptyObj))

is_device_watering(devs, device_id) ==
    LET ws == WateringStatusOf(devs, device_id) IN
    IF ws.raised THEN ws
    ELSE IF ~IsObj(ws.v) THEN Raised("AttributeError")
    ELSE Returned(JBool(DictGet(ws.v, "status", JNull) = JStr("watering_in_progress")))

get_device_mode(devs, device_id) ==
    LET device == get_device_status(devs, device_id) IN
    IF ~IsObj(device) THEN Raised("AttributeError")
    ELSE Returned(DictGet(device, "mode", JStr("unknown")))

get_watering_station(devs, device_id) ==
    LET ws == WateringStatusOf(devs, device_id) IN
    IF ws.raised THEN ws
    ELSE IF ~IsObj(ws.v) THEN Raised("AttributeError")
    ELSE IF DictGet(ws.v, "status", JNull) = JStr("watering_in_progress")
         THEN Returned(DictGet(ws.v, "current_station", JNull))
    ELSE Returned(JNull)

(***************************************************************************)
(* State                                                                   *)
(***************************************************************************)
VARIABLES
    connected,              \* self.connected
    retry_count,            \* self._retry_count
    last_connect_attempt,   \* self._last_connect_attempt
    shutdown_requested,     \* self._shutdown_requested
    since_disconnect,       \* history: "same" while the registry is as the disconnect of a
                            \* session left it, "changed" once it differs, else "none"
    signal_handlers,        \* self._original_signal_handlers is not empty
    devices,                \* self.devices: device id -> JSON value
    subscribed_topics,      \* self._subscribed_topics
    retained_messages,      \* self._retained_messages: topic -> [payload, timestamp, qos]
    client,                 \* the broker client's socket: "idle", "handshake", "session"
    loop,                   \* the broker client's network loop thread is running
    pc,                     \* connect(): "idle", or "waiting" in its wait loop
    waits,                  \* connect(): iterations of the wait loop done
    retry_count_at_call,    \* history: self._retry_count when the running connect() was
                            \* called, 0 while no connect() runs
    now,                    \* time.time()
    snapshot,               \* the dict a caller holds from get_devices(): whether one was
                            \* returned, its content then, and the ids whose records
                            \* are the objects the store holds
    broker_retained,        \* the broker: the topics it holds a retained value for
    unsubscribed,           \* history: the topics a successful unsubscribe_from_topic
                            \* removed, until the caller subscribes to them again
    event_handlers,         \* self.event_handlers: event type -> what the handler does
                            \* when it is called, "returns" or "raises"
    op,                     \* the last operation: its name, arguments and result
    calls,                  \* the broker client calls the last operation made
    events                  \* the _trigger_event calls the last operation made

vars == <<connected, retry_count, last_connect_attempt, shutdown_requested,
          since_disconnect, signal_handlers, devices, subscribed_topics, retained_messages,
          client, loop, pc, waits, retry_count_at_call, now, snapshot, broker_retained,
          event_handlers, unsubscribed, op, calls, events>>

connVars == <<connected, retry_count, last_connect_attempt, shutdown_requested,
              signal_handlers, client, loop, pc, waits, retry_count_at_call, now>>

Op(name, dev, topic, payload, retain, ret) ==
    [name |-> name, dev |-> dev, topic |-> topic, payload |-> payload,
     retain |-> retain, ret |-> ret, again |-> FALSE]
\* the observation of a call that repeats the call before it: marked, in
\* alternation, so that the repeated call is a step of its own
Again(o) == [o EXCEPT !.again = (op = o)]

\* __init__
Init ==
    /\ connected = FALSE
    /\ retry_count = 0
    /\ last_connect_attempt = 0
    /\ shutdown_requested = FALSE
    /\ since_disconnect = "none"
    /\ signal_handlers = TRUE
    /\ devices = <<>>
    /\ subscribed_topics = {}
    /\ retained_messages = <<>>
    /\ client = "idle"
    /\ loop = FALSE
    /\ pc = "idle"
    /\ waits = 0
    /\ retry_count_at_call = 0
    /\ now = 0
    /\ snapshot = [taken |-> FALSE, returned |-> <<>>, shared |-> {}]
    /\ broker_retained = {}
    /\ event_handlers = <<>>
    /\ unsubscribed = {}
    /\ op = Op("init", "", <<>>, EmptyText, FALSE, Returned(JNull))
    /\ calls = <<>>
    /\ events = <<>>

(***************************************************************************)
(* Inputs of the command validator                                         *)
(***************************************************************************)
StateSpellings == {"ON", "on", "On", "oN", "OFF", "off", "Off", "oFf", "MAYBE", "maybe", ""}
OnSpellings == {"ON", "on", "On", "oN"}
OffSpellings == {"OFF", "off", "Off", "oFf"}
StateValues == {JStr(s) : s \in StateSpellings} \cup {JNum(1), JNull}
TimeValues == {JNum(n) : n \in {0, 1, 5, 999, 1000}} \cup {JStr("5"), JBool(TRUE), JNull}
ExtraValues == {JNum(1)}

\* the objects over the keys state, time and extra
CommandObjects ==
    { JObj(f) : f \in UNION { [K -> StateValues \cup TimeValues \cup ExtraValues] :
                              K \in SUBSET {"state", "time", "extra"} } }
WellTypedCommandObjects ==
    { c \in CommandObjects :
        /\ ("state" \in Keys(c) => c.f["state"] \in StateValues)
        /\ ("time" \in Keys(c) => c.f["time"] \in TimeValues)
        /\ ("extra" \in Keys(c) => c.f["extra"] \in ExtraValues) }
CommandPayloads ==
    {Text(c) : c \in WellTypedCommandObjects}
        \cup {Malformed, EmptyText, Text(JList(<<>>)), Text(JStr("ON")), Text(JNull)}

\* validate_command(message), called by itself
ValidateCommand(message) ==
    /\ op' = Op("validate_command", "", <<>>, message, FALSE, validate_command(message))
    /\ calls' = <<>>
    /\ events' = <<>>
    /\ UNCHANGED <<unsubscribed, event_handlers, snapshot, broker_retained,
                   connVars, since_disconnect, devices, subscribed_topics, retained_messages>>

NextCmd == \E message \in CommandPayloads : ValidateCommand(message)
SpecCmd == Init /\ [][NextCmd]_vars

(***************************************************************************)
(* Inbound messages                                                        *)
(***************************************************************************)
\* the device ids a message binds to a new object in self.devices: a /details
\* message assigns the parsed payload; every other write changes the record
\* the store holds in place
Rebound(topic, payload) ==
    IF /\ StartsWithDevice(topic)
       /\ ~(ContainsZone(topic) /\ EndsWith(topic, "set"))
       /\ ~EndsWith(topic, "status")
       /\ EndsWith(topic, "details")
       /\ ~json_loads(payload).raised
    THEN {topic[3]}
    ELSE {}

\* _on_message(topic, payload), run by the network loop for a delivered message
OnMessage(topic, payload) ==
    LET r == RouteMessage(devices, topic, payload) IN
    /\ devices' = r.devices
    /\ events' = r.events
    /\ snapshot' = [snapshot EXCEPT !.shared = @ \ Rebound(topic, payload)]
    /\ op' = Op("on_message", "", topic, payload, FALSE,
                _on_message(devices, event_handlers, topic, payload))
    /\ calls' = <<>>
    /\ UNCHANGED <<unsubscribed, event_handlers, broker_retained,
                   connVars, since_disconnect, subscribed_topics, retained_messages>>

DeviceIds == {"d1", "d2"}
StatusAuto == JObj([mode |-> JStr("auto")])
StatusBattery == JObj([battery_level |-> JNum(80)])
StatusScalarWatering == JObj([watering_status |-> JStr("idle")])
DetailsFront == JObj([name |-> JStr("Front"), mode |-> JStr("auto")])
WateringInProgressNotification ==
    JObj([event |-> JStr("watering_in_progress_notification"),
          current_station |-> JNum(2), run_time |-> JNum(5)])
WateringComplete == JObj([event |-> JStr("watering_complete")])
ChangeMode == JObj([event |-> JStr("change_mode"), mode |-> JStr("manual")])
DeviceIdle == JObj([event |-> JStr("device_idle")])

StatusPayloads ==
    {Text(StatusAuto), Text(StatusBattery), Text(StatusScalarWatering), Text(JNum(42)),
     EmptyText, Malformed}
DetailsPayloads ==
    {Text(DetailsFront), Text(EmptyObj), Text(JNum(42)), Text(JList(<<>>)), Malformed}
MessagePayloads ==
    {Text(WateringInProgressNotification), Text(WateringComplete), Text(ChangeMode),
     Text(DeviceIdle), Text(JNum(42)), Malformed}
DevicesListPayloads == {Text(JList(<<JStr("d1")>>)), Malformed}

\* the messages delivered to the router: a topic with a payload
RouterMessages ==
    UNION { ({DeviceTopic(d, "status")} \X StatusPayloads)
                \cup ({DeviceTopic(d, "details")} \X DetailsPayloads)
                \cup ({DeviceTopic(d, "message")} \X MessagePayloads) : d \in DeviceIds }
        \cup ({TopicDevices} \X DevicesListPayloads)

NextRouter == \E m \in RouterMessages : OnMessage(m[1], m[2])
SpecRouter == Init /\ [][NextRouter]_vars

\* messages on every routed topic, the zone set topics among them, each with
\* well-formed and with malformed text
CommandOn == JObj([state |-> JStr("on"), time |-> JNum(5)])
InboundMessages ==
    UNION { ({DeviceTopic(d, "status")} \X {Text(StatusAuto), EmptyText, Malformed})
                \cup ({DeviceTopic(d, "details")} \X {Text(DetailsFront), Text(JNum(42)), Malformed})
                \cup ({DeviceTopic(d, "message")}
                        \X {Text(WateringInProgressNotification), Text(WateringComplete), Malformed})
                \cup ({ZoneSetTopic(d, 1)} \X {Text(CommandOn), Malformed}) : d \in DeviceIds }
        \cup ({TopicDevices} \X DevicesListPayloads)

\* topics of zone set messages: well-formed ones, and ones with a blank id, a
\* station that is no number or is negative, a segment missing, a segment too
\* many, and the zone segment out of its place
ZoneSetTopics ==
    {ZoneSetTopic("d1", n) : n \in DOMAIN StationStr}
        \cup { <<"bhyve", "device", "", "zone", "1", "set">>,
               <<"bhyve", "device", " ", "zone", "1", "set">>,
               <<"bhyve", "device", "d1", "zone", "x", "set">>,
               <<"bhyve", "device", "d1", "zone", "-1", "set">>,
               <<"bhyve", "device", "d1", "zone", "set">>,
               <<"bhyve", "device", "d1", "zone", "1", "extra", "set">>,
               <<"bhyve", "device", "zone", "x", "1", "set">> }

\* the payloads of zone set messages: the commands over a few spellings of
\* the state and a few times, and the texts that are no object
ZoneStateValues == {JStr("ON"), JStr("on"), JStr("OFF"), JStr("On"), JNum(1)}
ZoneTimeValues == {JNum(5), JNum(1000), JStr("5")}
ZonePayloads ==
    { p \in CommandPayloads :
        IsObj(p.v) =>
            /\ ("state" \in Keys(p.v) => p.v.f["state"] \in ZoneStateValues)
            /\ ("time" \in Keys(p.v) => p.v.f["time"] \in ZoneTimeValues) }

\* the router with zone set messages alone
NextZone == \E topic \in ZoneSetTopics, payload \in ZonePayloads : OnMessage(topic, payload)
SpecZone == Init /\ [][NextZone]_vars

\* on_event(event_type, handler): handler is what the function does when called
OnEvent(event_type, handler) ==
    /\ event_handlers' = (event_type :> handler) @@ event_handlers
    /\ op' = Again(Op("on_event", "", <<>>, Text(JStr(event_type)), FALSE, Returned(JNull)))
    /\ calls' = <<>>
    /\ events' = <<>>
    /\ UNCHANGED <<unsubscribed, snapshot, broker_retained, connVars, since_disconnect,
                   devices, subscribed_topics, retained_messages>>

\* the event types handlers are registered for, and what a handler does
HandledEvents == {"device_status", "device_message", "zone_control_command"}
HandlerBehaviours == {"returns", "raises"}
\* the messages delivered while handlers are registered: well-formed ones, an
\* unknown discriminant, payloads of the wrong JSON type, and texts that do
\* not parse
FaultMessages ==
    ({DeviceTopic("d1", "status")} \X {Text(StatusAuto), Text(JNum(42)), Malformed})
        \cup ({DeviceTopic("d1", "details")} \X {Text(JNum(42))})
        \cup ({DeviceTopic("d1", "message")}
                 \X {Text(DeviceIdle), Text(WateringComplete), Text(JNum(42)), Malformed})
        \cup ({ZoneSetTopic("d1", 1)} \X {Text(CommandOn), Text(JNum(42)), Malformed})
        \cup ({TopicDevices} \X DevicesListPayloads)

\* the router with registered handlers
NextHandlers ==
    \/ \E e \in HandledEvents, h \in HandlerBehaviours : OnEvent(e, h)
    \/ \E m \in FaultMessages : OnMessage(m[1], m[2])
SpecHandlers == Init /\ [][NextHandlers]_vars

\* get_devices(): self.devices.copy(), a new dict whose values are the
\* record objects of the store
GetDevices ==
    /\ snapshot' = [taken |-> TRUE, returned |-> devices, shared |-> DOMAIN devices]
    /\ op' = Op("get_devices", "", <<>>, EmptyText, FALSE, Returned(JNull))
    /\ calls' = <<>>
    /\ events' = <<>>
    /\ UNCHANGED <<unsubscribed, event_handlers, connVars, broker_retained, since_disconnect,
                   devices,
                   subscribed_topics,
                   retained_messages>>

\* what a caller reads in the dict get_devices() returned: under an id whose
\* record is still the store's object, the record as the store has it now
SnapshotContent ==
    [d \in DOMAIN snapshot.returned |->
        IF d \in snapshot.shared THEN devices[d] ELSE snapshot.returned[d]]

\* a caller that takes snapshots while status, details and realtime messages
\* of one device arrive
SnapshotMessages ==
    ({DeviceTopic("d1", "status")} \X {Text(StatusAuto), Text(StatusBattery)})
        \cup ({DeviceTopic("d1", "details")} \X {Text(DetailsFront)})
        \cup ({DeviceTopic("d1", "message")}
                \X {Text(WateringInProgressNotification), Text(WateringComplete),
                    Text(ChangeMode)})
NextSnapshot ==
    \/ \E m \in SnapshotMessages : OnMessage(m[1], m[2])
    \/ GetDevices
SpecSnapshot == Init /\ [][NextSnapshot]_vars

NextInbound == \E m \in InboundMessages : OnMessage(m[1], m[2])
SpecInbound == Init /\ [][NextInbound]_vars

(***************************************************************************)
(* Claims about the message router, checked under SpecRouter               *)
(***************************************************************************)
\* the message the router handled last, and the device its topic names
IsRouted(o, leaf) == o.name = "on_message" /\ StartsWithDevice(o.topic) /\ EndsWith(o.topic, leaf)
RoutedDevice(o) == o.topic[3]
CarriesObject(o) == o.payload.k = "json" /\ IsObj(o.payload.v)
CarriesEvent(o, event) ==
    CarriesObject(o) /\ DictGet(o.payload.v, "event", JNull) = JStr(event)

\* the key-wise merge of object new into object old: new's values win, old's
\* other keys keep their values
KeyWiseMerge(old, new) ==
    JObj([k \in Keys(old) \cup Keys(new) |-> IF k \in Keys(new) THEN new.f[k] ELSE old.f[k]])

\* C1: a /status message for D with an object payload P leaves D's record equal
\* to the key-wise merge of P into the record D had (the empty record when D had
\* none, so that a first /status creates the record with exactly P's keys), and
\* fires device_status with (D, P) and nothing else; a sequence of such messages
\* so yields the merge of its payloads in arrival order.
C1_StatusMerges ==
    [][ (/\ IsRouted(op', "status")
         /\ CarriesObject(op')
         /\ (RoutedDevice(op') \in DOMAIN devices => IsObj(devices[RoutedDevice(op')])))
        => LET D == RoutedDevice(op')
               P == op'.payload.v
               old == IF D \in DOMAIN devices THEN devices[D] ELSE EmptyObj
           IN /\ D \in DOMAIN devices'
              /\ devices'[D] = KeyWiseMerge(old, P)
              /\ events' = <<Fired("device_status", D, <<>>, P)>>
              /\ \A e \in DOMAIN devices' \ {D} : e \in DOMAIN devices /\ devices'[e] = devices[e]
      ]_vars

\* {"mode": "auto"} and then {"battery_level": 80} on d1's /status: both fields are held
C1_Witness ==
    /\ op.name = "on_message"
    /\ op.topic = DeviceTopic("d1", "status")
    /\ op.payload = Text(StatusBattery)
    /\ "d1" \in DOMAIN devices
    /\ devices["d1"] = JObj([mode |-> JStr("auto"), battery_level |-> JNum(80)])
    /\ events = <<Fired("device_status", "d1", <<>>, StatusBattery)>>

\* C2: after a /details message for D with a JSON payload P the record of D is
\* P exactly, whatever record D had before, and device_details has fired with
\* (D, P) and nothing else.
C2_DetailsReplace ==
    (IsRouted(op, "details") /\ op.payload.k = "json") =>
        /\ RoutedDevice(op) \in DOMAIN devices
        /\ devices[RoutedDevice(op)] = op.payload.v
        /\ events = <<Fired("device_details", RoutedDevice(op), <<>>, op.payload.v)>>

\* a /details with the payload {} has replaced d1's record while d2 holds a record
C2_Witness ==
    /\ op.name = "on_message"
    /\ op.topic = DeviceTopic("d1", "details")
    /\ op.payload = Text(EmptyObj)
    /\ "d1" \in DOMAIN devices
    /\ devices["d1"] = EmptyObj
    /\ "d2" \in DOMAIN devices

\* C8: after a /message for D with event watering_in_progress_notification and
\* current_station s, is_device_watering(D) is true and get_watering_station(D)
\* is s; after a watering_complete for D that follows it, is_device_watering(D)
\* is false, get_watering_station(D) is none and get_device_mode(D) is what it
\* was before the watering_complete.
C8_WateringLifecycle ==
    [][ /\ (IsRouted(op', "message") /\ CarriesEvent(op', "watering_in_progress_notification"))
            => /\ is_device_watering(devices', RoutedDevice(op')) = Returned(JBool(TRUE))
               /\ get_watering_station(devices', RoutedDevice(op')) =
                      Returned(DictGet(op'.payload.v, "current_station", JNull))
        /\ (/\ IsRouted(op, "message") /\ CarriesEvent(op, "watering_in_progress_notification")
            /\ IsRouted(op', "message") /\ CarriesEvent(op', "watering_complete")
            /\ RoutedDevice(op') = RoutedDevice(op))
            => /\ is_device_watering(devices', RoutedDevice(op')) = Returned(JBool(FALSE))
               /\ get_watering_station(devices', RoutedDevice(op')) = Returned(JNull)
               /\ get_device_mode(devices', RoutedDevice(op')) =
                      get_device_mode(devices, RoutedDevice(op'))
      ]_vars

\* C8 with the record of D absent or an object before each of the two messages:
\* the lifecycle holds, so that only a record that is not an object breaks it.
C8_ObjectRecords ==
    [][ (/\ IsRouted(op', "message")
         /\ (RoutedDevice(op') \in DOMAIN devices => IsObj(devices[RoutedDevice(op')])))
        => /\ (IsRouted(op', "message") /\ CarriesEvent(op', "watering_in_progress_notification"))
               => /\ is_device_watering(devices', RoutedDevice(op')) = Returned(JBool(TRUE))
                  /\ get_watering_station(devices', RoutedDevice(op')) =
                         Returned(DictGet(op'.payload.v, "current_station", JNull))
           /\ (/\ IsRouted(op, "message") /\ CarriesEvent(op, "watering_in_progress_notification")
               /\ IsRouted(op', "message") /\ CarriesEvent(op', "watering_complete")
               /\ RoutedDevice(op') = RoutedDevice(op))
               => /\ is_device_watering(devices', RoutedDevice(op')) = Returned(JBool(FALSE))
                  /\ get_watering_station(devices', RoutedDevice(op')) = Returned(JNull)
                  /\ get_device_mode(devices', RoutedDevice(op')) =
                         get_device_mode(devices, RoutedDevice(op'))
      ]_vars

(***************************************************************************)
(* Claims about the command validator, checked under SpecCmd               *)
(***************************************************************************)
\* the command object the last validate_command call was given
ValidatedObject == op.name = "validate_command" /\ op.payload.k = "json" /\ IsObj(op.payload.v)
GivenCommand == op.payload.v
GivenState == GivenCommand.f["state"]
Accepted == ~op.ret.raised
Rejected == op.ret.raised

TimeInRange(c) == c.f["time"].t = "num" /\ c.f["time"].n >= 1 /\ c.f["time"].n <= 999
\* the payload is valid apart from the spelling of its state, one of onSet or offSet
RestValid(c, onSet) ==
    /\ Keys(c) \subseteq {"state", "time"}
    /\ ("time" \in Keys(c) => TimeInRange(c))
    /\ (c.f["state"].s \in onSet => "time" \in Keys(c))

\* C9, as claimed: every casing of ON or OFF (ON, on, On, oN, OFF, off, Off, oFf)
\* is accepted with an otherwise valid payload and returned in upper case, and
\* every other state value is rejected.
C9_EveryCasingAccepted ==
    (ValidatedObject /\ "state" \in Keys(GivenCommand)) =>
        IF GivenState.t = "str" /\ GivenState.s \in OnSpellings \cup OffSpellings
        THEN RestValid(GivenCommand, OnSpellings) =>
                /\ Accepted
                /\ op.ret.v.f["state"] =
                       JStr(IF GivenState.s \in OnSpellings THEN "ON" ELSE "OFF")
        ELSE Rejected

\* C9, amended: the state spellings ON, OFF, on and off, and no others, are
\* accepted with an otherwise valid payload, and the command is returned with
\* state in upper case; every other state value, the mixed casings On, oN, Off
\* and oFf and MAYBE among them, is rejected.
C9_UpperOrLowerAccepted ==
    (ValidatedObject /\ "state" \in Keys(GivenCommand)) =>
        IF GivenState.t = "str" /\ GivenState.s \in {"ON", "on", "OFF", "off"}
        THEN RestValid(GivenCommand, {"ON", "on"}) =>
                /\ Accepted
                /\ op.ret.v.f["state"] =
                       JStr(IF GivenState.s \in {"ON", "on"} THEN "ON" ELSE "OFF")
                /\ \A k \in Keys(GivenCommand) \ {"state"} : op.ret.v.f[k] = GivenCommand.f[k]
        ELSE Rejected

\* {"state": "on", "time": 5} has been accepted and returned as {"state": "ON", "time": 5}
C9_Witness ==
    /\ op.name = "validate_command"
    /\ op.payload = Text(JObj([state |-> JStr("on"), time |-> JNum(5)]))
    /\ op.ret = Returned(JObj([state |-> JStr("ON"), time |-> JNum(5)]))

\* C10: time is required exactly when state is ON: ON or on without time is
\* rejected and with a time in 1..999 accepted; OFF or off is accepted with or
\* without time; an accepted command's time, when present, is a number in
\* 1..999 (0 and 1000 are rejected for either state); a payload without state,
\* or with a property other than state and time, is rejected.
C10_TimeRequiredWhenOn ==
    ValidatedObject =>
        LET c == GivenCommand
            hasState == "state" \in Keys(c)
            isOn == hasState /\ c.f["state"].t = "str" /\ c.f["state"].s \in {"ON", "on"}
            isOff == hasState /\ c.f["state"].t = "str" /\ c.f["state"].s \in {"OFF", "off"}
            onlyKnown == Keys(c) \subseteq {"state", "time"}
        IN /\ (isOn /\ "time" \notin Keys(c)) => Rejected
           /\ (isOn /\ onlyKnown /\ "time" \in Keys(c) /\ TimeInRange(c)) => Accepted
           /\ (isOff /\ onlyKnown /\ "time" \notin Keys(c)) => Accepted
           /\ (isOff /\ onlyKnown /\ "time" \in Keys(c) /\ TimeInRange(c)) => Accepted
           /\ ("time" \in Keys(c) /\ ~TimeInRange(c)) => Rejected
           /\ ~hasState => Rejected
           /\ ~onlyKnown => Rejected

\* {"state": "OFF", "time": 5} has been accepted
C10_Witness ==
    /\ op.name = "validate_command"
    /\ op.payload = Text(JObj([state |-> JStr("OFF"), time |-> JNum(5)]))
    /\ Accepted

(***************************************************************************)
(* The broker client (paho): its socket, its network loop and its calls    *)
(***************************************************************************)
\* a call of the broker client, with the result code it returned
Call(kind, topic, payload, retain, qos, rc) ==
    [call |-> kind, topic |-> topic, payload |-> payload, retain |-> retain,
     qos |-> qos, rc |-> rc]

\* the client holds a socket from mqtt_client.connect() until the connection
\* closes: while the CONNACK is awaited ("handshake") and in a session
SocketOpen(c) == c \in {"handshake", "session"}
\* subscribe, unsubscribe and publish return MQTT_ERR_NO_CONN without a socket
BrokerRc(c) == IF SocketOpen(c) THEN "MQTT_ERR_SUCCESS" ELSE "MQTT_ERR_NO_CONN"

\* the broker's retained values after the calls cs: a retained publish the
\* broker client accepted sets the topic's value, or deletes it when the
\* payload is empty
RECURSIVE Deliver(_, _)
Deliver(held, cs) ==
    IF cs = <<>> THEN held
    ELSE LET c == Head(cs)
             after == IF c.call = "publish" /\ c.retain /\ c.rc = "MQTT_ERR_SUCCESS"
                      THEN IF c.payload = EmptyText THEN held \ {c.topic}
                           ELSE held \cup {c.topic}
                      ELSE held
         IN Deliver(after, Tail(cs))

\* configured values: connect_timeout, reconnect_period and max_retries
ConnectTimeout == 1
ReconnectPeriod == 2
MaxRetries == 2
\* min(self.config['connect_timeout'], 10)
TimeoutSeconds == IF ConnectTimeout < 10 THEN ConnectTimeout ELSE 10

\* the clock stops at MaxTime and the retry counter at MaxRetryCount
MaxTime == 2
MaxRetryCount == 2

(***************************************************************************)
(* Subscription registry                                                   *)
(***************************************************************************)
\* the registry and the broker calls made so far by the running operation
Subscribed(topics, cs) == [topics |-> topics, calls |-> cs]

\* a _subscribe_to_topic that records the topic whatever the broker client returns
SubscribeRecordsAlways(st, c, topic, force) ==
    IF ~force /\ topic \in st.topics
    THEN st
    ELSE Subscribed(st.topics \cup {topic},
                    Append(st.calls, Call("subscribe", topic, EmptyText, FALSE, 0, BrokerRc(c))))

\* _subscribe_to_topic(topic, force)
_subscribe_to_topic(st, c, topic, force) ==
    IF ~force /\ topic \in st.topics
    THEN st
    ELSE LET result == BrokerRc(c) IN
         Subscribed(IF result = "MQTT_ERR_SUCCESS" THEN st.topics \cup {topic} ELSE st.topics,
                    Append(st.calls, Call("subscribe", topic, EmptyText, FALSE, 0, result)))

\* for topic in topics: self._subscribe_to_topic(topic, force)
RECURSIVE SubscribeEach(_, _, _, _)
SubscribeEach(st, c, topics, force) ==
    IF topics = <<>>
    THEN st
    ELSE SubscribeEach(_subscribe_to_topic(st, c, Head(topics), force), c, Tail(topics), force)

\* topics_to_subscribe of _subscribe_to_topics
DefaultTopics ==
    << TopicDevices,
       TopicDeviceRefresh,
       DeviceTopic("+", "status"),
       DeviceTopic("+", "details"),
       DeviceTopic("+", "message"),
       <<"bhyve", "device", "+", "zone", "+", "set">> >>

\* _subscribe_to_topics
_subscribe_to_topics(st, c) == SubscribeEach(st, c, DefaultTopics, FALSE)

\* list(self._subscribed_topics): the set's elements in its iteration order
RECURSIVE ListOf(_)
ListOf(S) ==
    IF S = {} THEN <<>>
    ELSE LET x == CHOOSE y \in S : TRUE IN <<x>> \o ListOf(S \ {x})

\* _resubscribe_to_topics
_resubscribe_to_topics(st, c) == SubscribeEach(st, c, ListOf(st.topics), TRUE)

\* datetime.utcnow().isoformat(): the text of the clock's reading
IsoFormat(t) == [k |-> "time", v |-> JNum(t)]

\* a _publish_online whose online message is not retained
PublishOnlineUnretained(conn, c, t) ==
    IF conn
    THEN << Call("publish", TopicAlive, IsoFormat(t), FALSE, 0, BrokerRc(c)),
            Call("publish", TopicOnline, Text(JBool(TRUE)), FALSE, 0, BrokerRc(c)) >>
    ELSE <<>>

\* _publish_online: the two publishes, neither recorded in the tracker
_publish_online(conn, c, t) ==
    IF conn
    THEN << Call("publish", TopicAlive, IsoFormat(t), FALSE, 0, BrokerRc(c)),
            Call("publish", TopicOnline, Text(JBool(TRUE)), TRUE, 0, BrokerRc(c)) >>
    ELSE <<>>

\* _on_connect, rc = 0: resubscribe the registry, or subscribe the default
\* topics when the registry is empty
OnConnectSubscriptions(st, c) ==
    IF st.topics # {} THEN _resubscribe_to_topics(st, c) ELSE _subscribe_to_topics(st, c)

(***************************************************************************)
(* Connection supervisor                                                   *)
(***************************************************************************)
NoTopic == <<>>
True == Returned(JBool(TRUE))
False == Returned(JBool(FALSE))
None == Returned(JNull)

\* connect(), up to its wait loop: the shutdown check, the throttle, the
\* broker client's connect (which may raise) and loop_start
ConnectBegin ==
    /\ pc = "idle"
    /\ events' = <<>>
    /\ UNCHANGED <<unsubscribed, event_handlers, snapshot, broker_retained,
                   connected, shutdown_requested, since_disconnect, signal_handlers, devices,
                   subscribed_topics, retained_messages, now>>
    /\ IF shutdown_requested
       THEN /\ op' = Op("connect", "", NoTopic, EmptyText, FALSE, False)
            /\ calls' = <<>>
            /\ UNCHANGED <<retry_count, last_connect_attempt, client, loop, pc, waits,
                           retry_count_at_call>>
       ELSE IF retry_count > 0 /\ now - last_connect_attempt < ReconnectPeriod
       THEN /\ op' = Op("connect", "", NoTopic, EmptyText, FALSE, False)
            /\ calls' = <<>>
            /\ UNCHANGED <<retry_count, last_connect_attempt, client, loop, pc, waits,
                           retry_count_at_call>>
       ELSE /\ last_connect_attempt' = now
            /\ \/ \* the socket opens and CONNECT is sent; the wait loop starts
                  /\ client' = "handshake"
                  /\ loop' = TRUE
                  /\ pc' = "waiting"
                  /\ waits' = 0
                  /\ retry_count_at_call' = retry_count
                  /\ calls' = << Call("connect", NoTopic, EmptyText, FALSE, 0, "MQTT_ERR_SUCCESS"),
                                 Call("loop_start", NoTopic, EmptyText, FALSE, 0, "MQTT_ERR_SUCCESS") >>
                  /\ op' = Op("connect", "", NoTopic, EmptyText, FALSE, None)
                  /\ UNCHANGED retry_count
               \/ \* mqtt_client.connect raises: the except branch
                  /\ retry_count < MaxRetryCount
                  /\ retry_count' = retry_count + 1
                  /\ client' = "idle"
                  /\ calls' = << Call("connect", NoTopic, EmptyText, FALSE, 0, "raised") >>
                  /\ op' = Op("connect", "", NoTopic, EmptyText, FALSE, False)
                  /\ UNCHANGED <<loop, pc, waits, retry_count_at_call>>

\* a wait loop without the cap: it sleeps until connected is seen
ConnectWaitUncapped ==
    /\ pc = "waiting"
    /\ calls' = <<>>
    /\ events' = <<>>
    /\ UNCHANGED <<unsubscribed, event_handlers, snapshot, broker_retained,
                   connected, last_connect_attempt, shutdown_requested, since_disconnect,
                   signal_handlers, devices, subscribed_topics, retained_messages,
                   client, loop>>
    /\ IF waits < TimeoutSeconds \/ ~connected
       THEN IF connected
            THEN /\ retry_count' = 0
                 /\ pc' = "idle"
                 /\ waits' = 0
                 /\ retry_count_at_call' = 0
                 /\ op' = Op("connect", "", NoTopic, EmptyText, FALSE, True)
                 /\ UNCHANGED now
            ELSE \* await asyncio.sleep(1)
                 /\ now < MaxTime
                 /\ now' = now + 1
                 /\ waits' = waits + 1
                 /\ op' = Op("connect", "", NoTopic, EmptyText, FALSE, None)
                 /\ UNCHANGED <<retry_count, pc, retry_count_at_call>>
       ELSE /\ retry_count < MaxRetryCount
            /\ retry_count' = retry_count + 1
            /\ pc' = "idle"
            /\ waits' = 0
            /\ retry_count_at_call' = 0
            /\ op' = Op("connect", "", NoTopic, EmptyText, FALSE, False)
            /\ UNCHANGED now

\* connect(), one iteration of its wait loop, or the timeout after the last
ConnectWait ==
    /\ pc = "waiting"
    /\ calls' = <<>>
    /\ events' = <<>>
    /\ UNCHANGED <<unsubscribed, event_handlers, snapshot, broker_retained,
                   connected, last_connect_attempt, shutdown_requested, since_disconnect,
                   signal_handlers, devices, subscribed_topics, retained_messages,
                   client, loop>>
    /\ IF waits < TimeoutSeconds
       THEN IF connected
            THEN /\ retry_count' = 0
                 /\ pc' = "idle"
                 /\ waits' = 0
                 /\ retry_count_at_call' = 0
                 /\ op' = Op("connect", "", NoTopic, EmptyText, FALSE, True)
                 /\ UNCHANGED now
            ELSE \* await asyncio.sleep(1)
                 /\ now < MaxTime
                 /\ now' = now + 1
                 /\ waits' = waits + 1
                 /\ op' = Op("connect", "", NoTopic, EmptyText, FALSE, None)
                 /\ UNCHANGED <<retry_count, pc, retry_count_at_call>>
       ELSE /\ retry_count < MaxRetryCount
            /\ retry_count' = retry_count + 1
            /\ pc' = "idle"
            /\ waits' = 0
            /\ retry_count_at_call' = 0
            /\ op' = Op("connect", "", NoTopic, EmptyText, FALSE, False)
            /\ UNCHANGED now

\* the data of the max_retries_exceeded event
RetriesExceeded(count) ==
    JObj([retry_count |-> JNum(count), max_retries |-> JNum(MaxRetries)])

\* _on_connect(rc), called by the network loop when the CONNACK arrives; a
\* refusing broker closes the connection after it
OnConnect(rc) ==
    /\ loop
    /\ client = "handshake"
    /\ op' = Op("on_connect", "", NoTopic, Text(JNum(rc)), FALSE, None)
    /\ UNCHANGED <<unsubscribed, event_handlers, snapshot, last_connect_attempt,
                   shutdown_requested,
                   signal_handlers, devices,
                   retained_messages, loop, pc, waits, retry_count_at_call, now>>
    /\ since_disconnect' = IF rc = 0 THEN "none"
                           ELSE IF connected THEN "same" ELSE since_disconnect
    /\ IF rc = 0
       THEN LET st == OnConnectSubscriptions(Subscribed(subscribed_topics, <<>>), "session") IN
            /\ connected' = TRUE
            /\ retry_count' = 0
            /\ subscribed_topics' = st.topics
            /\ calls' = st.calls \o _publish_online(TRUE, "session", now)
            /\ events' = <<>>
            /\ client' = "session"
       ELSE /\ retry_count < MaxRetryCount
            /\ retry_count' = retry_count + 1
            /\ connected' = FALSE
            /\ events' = IF retry_count + 1 >= MaxRetries
                         THEN <<Fired("max_retries_exceeded", "None", NoTopic,
                                      RetriesExceeded(retry_count + 1))>>
                         ELSE <<>>
            /\ calls' = <<>>
            /\ client' = "closed"
            /\ UNCHANGED subscribed_topics
    /\ broker_retained' = Deliver(broker_retained, calls')

\* the connection is lost: the network loop closes the socket, and is then to
\* call _on_disconnect
ConnectionLost ==
    /\ loop
    /\ SocketOpen(client)
    /\ client' = "closed"
    /\ op' = Op("connection_lost", "", NoTopic, EmptyText, FALSE, None)
    /\ calls' = <<>>
    /\ events' = <<>>
    /\ UNCHANGED <<unsubscribed, event_handlers, snapshot, broker_retained,
                   connected, retry_count, last_connect_attempt, shutdown_requested,
                   since_disconnect, signal_handlers, devices, subscribed_topics,
                   retained_messages, loop, pc, waits, retry_count_at_call, now>>

\* _on_disconnect, called by the network loop after the socket closed
OnDisconnect ==
    /\ loop
    /\ client = "closed"
    /\ connected' = FALSE
    /\ client' = "idle"
    /\ since_disconnect' = IF connected THEN "same" ELSE since_disconnect
    /\ op' = Op("on_disconnect", "", NoTopic, EmptyText, FALSE, None)
    /\ calls' = <<>>
    /\ events' = <<>>
    /\ UNCHANGED <<unsubscribed, event_handlers, snapshot, broker_retained, retry_count,
                   last_connect_attempt,
                   shutdown_requested,
                   signal_handlers, devices, subscribed_topics, retained_messages,
                   loop, pc, waits, retry_count_at_call, now>>

\* the network loop reconnects after a lost connection: the socket opens and
\* CONNECT is sent, or the attempt fails
AutoReconnect ==
    /\ loop
    /\ client = "idle"
    /\ \E opened \in BOOLEAN :
          /\ client' = IF opened THEN "handshake" ELSE "idle"
          /\ op' = Op("reconnect", "", NoTopic, EmptyText, FALSE, Returned(JBool(opened)))
    /\ calls' = <<>>
    /\ events' = <<>>
    /\ UNCHANGED <<unsubscribed, event_handlers, snapshot, broker_retained,
                   connected, retry_count, last_connect_attempt, shutdown_requested,
                   since_disconnect, signal_handlers, devices, subscribed_topics,
                   retained_messages, loop, pc, waits, retry_count_at_call, now>>

\* a disconnect() that leaves the signal handlers installed
DisconnectKeepsHandlers ==
    /\ loop' = FALSE
    /\ client' = "idle"
    /\ connected' = FALSE
    /\ op' = Again(Op("disconnect", "", NoTopic, EmptyText, FALSE, None))
    /\ calls' = << Call("loop_stop", NoTopic, EmptyText, FALSE, 0,
                        IF loop THEN "MQTT_ERR_SUCCESS" ELSE "MQTT_ERR_INVAL"),
                   Call("disconnect", NoTopic, EmptyText, FALSE, 0, BrokerRc(client)) >>
    /\ events' = <<>>
    /\ since_disconnect' = IF connected THEN "same" ELSE since_disconnect
    /\ UNCHANGED <<unsubscribed, event_handlers, snapshot, broker_retained,
                   retry_count, last_connect_attempt, shutdown_requested, signal_handlers,
                   devices, subscribed_topics, retained_messages, pc, waits,
                   retry_count_at_call, now>>

\* disconnect(): loop_stop, the broker client's disconnect, connected = False,
\* and the signal handlers restored
Disconnect ==
    /\ loop' = FALSE
    /\ client' = "idle"
    /\ connected' = FALSE
    /\ signal_handlers' = FALSE
    /\ op' = Again(Op("disconnect", "", NoTopic, EmptyText, FALSE, None))
    /\ calls' = << Call("loop_stop", NoTopic, EmptyText, FALSE, 0,
                        IF loop THEN "MQTT_ERR_SUCCESS" ELSE "MQTT_ERR_INVAL"),
                   Call("disconnect", NoTopic, EmptyText, FALSE, 0, BrokerRc(client)) >>
    /\ events' = <<>>
    /\ since_disconnect' = IF connected THEN "same" ELSE since_disconnect
    /\ UNCHANGED <<unsubscribed, event_handlers, snapshot, broker_retained, retry_count,
                   last_connect_attempt,
                   shutdown_requested,
                   devices, subscribed_topics, retained_messages, pc, waits,
                   retry_count_at_call, now>>

\* time passes
Tick ==
    /\ now < MaxTime
    /\ now' = now + 1
    /\ op' = Op("tick", "", NoTopic, EmptyText, FALSE, None)
    /\ calls' = <<>>
    /\ events' = <<>>
    /\ UNCHANGED <<unsubscribed, event_handlers, snapshot, broker_retained,
                   connected, retry_count, last_connect_attempt, shutdown_requested,
                   since_disconnect, signal_handlers, devices, subscribed_topics,
                   retained_messages, client, loop, pc, waits, retry_count_at_call>>

\* request_shutdown()
RequestShutdown ==
    /\ shutdown_requested' = TRUE
    /\ op' = Op("request_shutdown", "", NoTopic, EmptyText, FALSE, None)
    /\ calls' = <<>>
    /\ events' = <<>>
    /\ UNCHANGED <<unsubscribed, event_handlers, snapshot, broker_retained,
                   connected, retry_count, last_connect_attempt, since_disconnect,
                   signal_handlers, devices, subscribed_topics, retained_messages,
                   client, loop, pc, waits, retry_count_at_call, now>>

\* signal_handler(signum, frame), installed for SIGINT and SIGTERM until the
\* original handlers are restored: it sets the flag, calls the coroutine
\* function disconnect() without awaiting it, so that its body does not run,
\* and raises SystemExit
SignalHandler ==
    /\ signal_handlers
    /\ shutdown_requested' = TRUE
    /\ op' = Op("signal_handler", "", NoTopic, EmptyText, FALSE, Raised("SystemExit"))
    /\ calls' = <<>>
    /\ events' = <<>>
    /\ UNCHANGED <<unsubscribed, event_handlers, snapshot, broker_retained,
                   connected, retry_count, last_connect_attempt, since_disconnect,
                   signal_handlers, devices, subscribed_topics, retained_messages,
                   client, loop, pc, waits, retry_count_at_call, now>>

(***************************************************************************)
(* Subscribing and unsubscribing                                           *)
(***************************************************************************)
\* the history of the registry since the disconnect, after a call that left
\* the registry as after where it was before
RegistryTouched(since, before, after) ==
    IF since = "same" /\ after # before THEN "changed" ELSE since

\* subscribe_to_topic(topic)
SubscribeToTopic(topic) ==
    LET st == _subscribe_to_topic(Subscribed(subscribed_topics, <<>>), client, topic, FALSE) IN
    /\ subscribed_topics' = st.topics
    /\ calls' = st.calls
    /\ events' = <<>>
    /\ op' = Again(Op("subscribe_to_topic", "", topic, EmptyText, FALSE, None))
    /\ since_disconnect' = RegistryTouched(since_disconnect, subscribed_topics, st.topics)
    /\ unsubscribed' = unsubscribed \ {topic}
    /\ UNCHANGED <<event_handlers, snapshot, broker_retained, connVars, devices,
                   retained_messages>>

\* an unsubscribe_from_topic that leaves the registry as it was
UnsubscribeKeepsTopic(topic) ==
    LET result == BrokerRc(client) IN
    /\ subscribed_topics' = subscribed_topics
    /\ calls' = << Call("unsubscribe", topic, EmptyText, FALSE, 0, result) >>
    /\ events' = <<>>
    /\ op' = Op("unsubscribe_from_topic", "", topic, EmptyText, FALSE, None)
    /\ since_disconnect' = RegistryTouched(since_disconnect, subscribed_topics,
                                           subscribed_topics')
    /\ unsubscribed' = unsubscribed
    /\ UNCHANGED <<event_handlers, snapshot, broker_retained, connVars, devices,
                   retained_messages>>

\* unsubscribe_from_topic(topic)
UnsubscribeFromTopic(topic) ==
    LET result == BrokerRc(client) IN
    /\ subscribed_topics' = IF result = "MQTT_ERR_SUCCESS"
                            THEN subscribed_topics \ {topic}
                            ELSE subscribed_topics
    /\ calls' = << Call("unsubscribe", topic, EmptyText, FALSE, 0, result) >>
    /\ events' = <<>>
    /\ op' = Op("unsubscribe_from_topic", "", topic, EmptyText, FALSE, None)
    /\ since_disconnect' = RegistryTouched(since_disconnect, subscribed_topics,
                                           subscribed_topics')
    /\ unsubscribed' = IF result = "MQTT_ERR_SUCCESS" /\ topic \in subscribed_topics
                       THEN unsubscribed \cup {topic}
                       ELSE unsubscribed
    /\ UNCHANGED <<event_handlers, snapshot, broker_retained, connVars, devices,
                   retained_messages>>

\* the topics the callers subscribe to and unsubscribe from: a device's, and
\* one of the default topics
CallerTopics == {DeviceTopic("d1", "status"), TopicDevices}
\* every default topic, for the callers that unsubscribe from all of them
RegistryTopics == {DefaultTopics[i] : i \in DOMAIN DefaultTopics}
\* the result codes of the CONNACK: accepted, and refused as not authorised
ConnackCodes == {0, 5}

\* the connection's steps: connect(), disconnect(), and the network loop's
NextConn ==
    \/ ConnectBegin
    \/ ConnectWait
    \/ \E rc \in ConnackCodes : OnConnect(rc)
    \/ ConnectionLost
    \/ OnDisconnect
    \/ AutoReconnect
    \/ Disconnect

\* the connection with its owner, who also requests shutdowns, while time passes
NextSupervisor ==
    \/ NextConn
    \/ Tick
    \/ RequestShutdown
    \/ SignalHandler
SpecConn == Init /\ [][NextSupervisor]_vars

\* the bridge with callers that subscribe and unsubscribe
NextSubs ==
    \/ NextConn
    \/ Tick
    \/ \E t \in CallerTopics : SubscribeToTopic(t)
    \/ \E t \in CallerTopics : UnsubscribeFromTopic(t)
SpecSubs == Init /\ [][NextSubs]_vars

\* the bridge with callers that unsubscribe alone
NextUnsubs ==
    \/ NextConn
    \/ \E t \in RegistryTopics : UnsubscribeFromTopic(t)
SpecUnsubs == Init /\ [][NextUnsubs]_vars

\* for zone in zones: the topic f"{TOPICS['device']}/{device_id}/zone/{zone}/set"
DeviceZoneSetTopics(device_id, zones) == [i \in DOMAIN zones |-> ZoneSetTopic(device_id, zones[i])]

\* subscribe_to_device_zone_topics(device_id, zones)
SubscribeToDeviceZoneTopics(device_id, zones) ==
    LET st == SubscribeEach(Subscribed(subscribed_topics, <<>>), client,
                            DeviceZoneSetTopics(device_id, zones), FALSE) IN
    /\ subscribed_topics' = st.topics
    /\ calls' = st.calls
    /\ events' = <<>>
    /\ op' = Again(Op("subscribe_to_device_zone_topics", device_id, NoTopic,
                      Text(JList([i \in DOMAIN zones |-> JNum(zones[i])])), FALSE, None))
    /\ since_disconnect' = RegistryTouched(since_disconnect, subscribed_topics, st.topics)
    /\ unsubscribed' = unsubscribed \ {ZoneSetTopic(device_id, zones[i]) : i \in DOMAIN zones}
    /\ UNCHANGED <<event_handlers, snapshot, broker_retained, connVars, devices,
                   retained_messages>>

\* the zone lists the callers pass: none, one and two zones that have become known
KnownZoneLists == {<<>>, <<1>>, <<1, 2>>}

\* the bridge with callers that subscribe to the zones of a device
NextZoneSubs ==
    \/ NextConn
    \/ \E zones \in KnownZoneLists : SubscribeToDeviceZoneTopics("d1", zones)
SpecZoneSubs == Init /\ [][NextZoneSubs]_vars

(***************************************************************************)
(* Claims about the subscription registry, checked under SpecSubs          *)
(***************************************************************************)
\* the broker subscribe calls among cs, and the topics they name
SubscribeCalls(cs) == {i \in DOMAIN cs : cs[i].call = "subscribe"}
SubscribeCallsFor(cs, t) == {i \in SubscribeCalls(cs) : cs[i].topic = t}
SubscribedByCalls(cs) == {cs[i].topic : i \in SubscribeCalls(cs)}
\* this step is the second of two subscribe_to_topic calls for one topic
SubscribedTwice ==
    /\ op.name = "subscribe_to_topic"
    /\ op'.name = "subscribe_to_topic"
    /\ op'.topic = op.topic

\* C3, as claimed: subscribe_to_topic(t) twice, nothing in between, issues
\* exactly one broker subscribe call for t, and the registry then holds t.
C3_OneBrokerCall ==
    [][ SubscribedTwice
        => /\ Cardinality(SubscribeCallsFor(calls, op'.topic))
                + Cardinality(SubscribeCallsFor(calls', op'.topic)) = 1
           /\ op'.topic \in subscribed_topics'
      ]_vars

\* C3, amended: when the broker client accepts the first call's subscribe (or t
\* is in the registry already, and no call is made), the second
\* subscribe_to_topic(t) makes no broker call, the two make at most one, and the
\* registry holds t and is unchanged by the second; when the broker client
\* rejects the first call's subscribe, t is not recorded and the second
\* subscribe_to_topic(t) makes a broker subscribe call of its own.
C3_OneCallOnceAccepted ==
    [][ SubscribedTwice
        => LET t == op'.topic
               accepted == calls = <<>> \/ calls[1].rc = "MQTT_ERR_SUCCESS"
           IN IF accepted
              THEN /\ calls' = <<>>
                   /\ Cardinality(SubscribeCallsFor(calls, t)) <= 1
                   /\ t \in subscribed_topics
                   /\ subscribed_topics' = subscribed_topics
              ELSE /\ t \notin subscribed_topics
                   /\ Cardinality(SubscribeCallsFor(calls', t)) = 1
      ]_vars

\* in a session, subscribe_to_topic for d1's status topic, repeated at once, made
\* no broker call
C3_Witness ==
    /\ connected
    /\ op.name = "subscribe_to_topic"
    /\ op.topic = DeviceTopic("d1", "status")
    /\ op.again
    /\ calls = <<>>
    /\ DeviceTopic("d1", "status") \in subscribed_topics

\* C4: a disconnect (the connection lost, _on_disconnect, disconnect()) leaves
\* the registry unchanged, and the successful connect that follows the
\* disconnect of an earlier session issues a broker subscribe call for every
\* topic of the registry, as the disconnect left it, and for no other topic.
C4_ReconnectResubscribesRegistry ==
    [][ /\ op'.name \in {"connection_lost", "on_disconnect", "disconnect"}
            => subscribed_topics' = subscribed_topics
        /\ (since_disconnect = "same" /\ op'.name = "on_connect" /\ op'.payload = Text(JNum(0)))
            => SubscribedByCalls(calls') = subscribed_topics
      ]_vars

\* the operations that publish, and those that subscribe
PublishOperations ==
    {"publish_with_retention", "publish_device_status", "publish_device_details",
     "publish_zone_info", "publish_device_message", "publish_devices_list",
     "publish_device_data", "clear_retained_message", "cleanup_retained_messages",
     "start_watering", "stop_watering", "refresh_devices"}
SubscribeOperations == {"subscribe_to_topic"}

\* C5: while connected is false, every publish operation and every subscribe
\* call is rejected: it returns failure or nothing, does not raise, and leaves
\* the tracker and the registry unchanged.
C5_RejectedWhileDisconnected ==
    [][ (~connected /\ op'.name \in PublishOperations \cup SubscribeOperations)
        => /\ op'.ret \in {False, None}
           /\ retained_messages' = retained_messages
           /\ subscribed_topics' = subscribed_topics
      ]_vars

(***************************************************************************)
(* Publisher and retained-message tracker                                  *)
(***************************************************************************)
\* json.dumps(v): the text of v
json_dumps(v) == Text(v)
\* a str that holds the JSON text of v (json.dumps's result, used as a value)
JText(v) == [t |-> "str", s |-> "json", n |-> 0, f |-> <<>>, l |-> <<v>>]
\* not v, of a Python value
Falsy(v) ==
    \/ v.t = "null"
    \/ v.t = "obj" /\ v.f = <<>>
    \/ v.t = "list" /\ v.l = <<>>
    \/ v.t = "str" /\ v.s = "" /\ v.l = <<>>
    \/ v.t \in {"num", "bool"} /\ v.n = 0

\* what an operation reads of the connection: self.connected, the broker
\* client's socket, and time.time()
PubEnv == [connected |-> connected, client |-> client, now |-> now]
\* the tracker, the broker calls made so far, and the value returned
Published(tracker, cs, ret) == [tracker |-> tracker, calls |-> cs, ret |-> ret]
\* an entry of the tracker
Retained(payload, timestamp, qos) == [payload |-> payload, timestamp |-> timestamp, qos |-> qos]
\* self._retained_messages[topic] = entry, and self._retained_messages.pop(topic, None)
TrackerSet(tracker, topic, entry) == (topic :> entry) @@ tracker
TrackerPop(tracker, topic) == [x \in DOMAIN tracker \ {topic} |-> tracker[x]]

\* mqtt_client.publish(topic, ...): the broker client raises ValueError for a
\* topic with a wildcard, and else returns the result code of its socket
HasWildcard(topic) == \E i \in DOMAIN topic : topic[i] \in {"+", "#"}
PublishRc(c, topic) == IF HasWildcard(topic) THEN "ValueError" ELSE BrokerRc(c)

\* a publish_with_retention that tracks the topic whatever the broker client answers
PublishTracksRejected(st, env, topic, payload, retain, qos) ==
    IF ~env.connected
    THEN Published(st.tracker, st.calls, FALSE)
    ELSE LET rc == PublishRc(env.client, topic)
             cs == Append(st.calls, Call("publish", topic, payload, retain, qos, rc))
         IN Published(IF retain
                      THEN TrackerSet(st.tracker, topic, Retained(payload, env.now, qos))
                      ELSE TrackerPop(st.tracker, topic),
                      cs, rc = "MQTT_ERR_SUCCESS")

\* a publish_with_retention that leaves the entry when it publishes unretained
PublishKeepsEntry(st, env, topic, payload, retain, qos) ==
    IF ~env.connected
    THEN Published(st.tracker, st.calls, FALSE)
    ELSE LET rc == PublishRc(env.client, topic)
             cs == Append(st.calls, Call("publish", topic, payload, retain, qos, rc))
         IN IF rc = "MQTT_ERR_SUCCESS"
            THEN Published(IF retain
                           THEN TrackerSet(st.tracker, topic, Retained(payload, env.now, qos))
                           ELSE st.tracker,
                           cs, TRUE)
            ELSE Published(st.tracker, cs, FALSE)

\* publish_with_retention(topic, payload, retain, qos)
publish_with_retention(st, env, topic, payload, retain, qos) ==
    IF ~env.connected
    THEN Published(st.tracker, st.calls, FALSE)
    ELSE LET rc == PublishRc(env.client, topic)
             cs == Append(st.calls, Call("publish", topic, payload, retain, qos, rc))
         IN IF rc = "MQTT_ERR_SUCCESS"
            THEN Published(IF retain
                           THEN TrackerSet(st.tracker, topic, Retained(payload, env.now, qos))
                           ELSE TrackerPop(st.tracker, topic),
                           cs, TRUE)
            ELSE Published(st.tracker, cs, FALSE)

\* publish_device_status(device_id, status_data, retain)
publish_device_status(st, env, device_id, status_data, retain) ==
    IF ~env.connected
    THEN Published(st.tracker, st.calls, FALSE)
    ELSE publish_with_retention(st, env, DeviceTopic(device_id, "status"),
                                IF Falsy(status_data) THEN EmptyText ELSE json_dumps(status_data),
                                retain, 0)

\* publish_device_details(device_id, device_data, retain)
publish_device_details(st, env, device_id, device_data, retain) ==
    IF ~env.connected
    THEN Published(st.tracker, st.calls, FALSE)
    ELSE publish_with_retention(st, env, DeviceTopic(device_id, "details"),
                                json_dumps(device_data), retain, 0)

\* publish_zone_info(device_id, zone_number, zone_data, retain)
publish_zone_info(st, env, device_id, zone_number, zone_data, retain) ==
    IF ~env.connected
    THEN Published(st.tracker, st.calls, FALSE)
    ELSE publish_with_retention(st, env, ZoneTopic(device_id, zone_number),
                                json_dumps(zone_data), retain, 0)

\* publish_device_message(device_id, message_data)
publish_device_message(st, env, device_id, message_data) ==
    IF ~env.connected
    THEN Published(st.tracker, st.calls, FALSE)
    ELSE publish_with_retention(st, env, DeviceTopic(device_id, "message"),
                                json_dumps(message_data), FALSE, 0)

\* publish_devices_list(device_ids)
publish_devices_list(st, env, device_ids) ==
    IF ~env.connected
    THEN Published(st.tracker, st.calls, FALSE)
    ELSE publish_with_retention(st, env, TopicDevices, json_dumps(device_ids), FALSE, 0)

\* clear_retained_message(topic)
clear_retained_message(st, env, topic) ==
    IF ~env.connected
    THEN Published(st.tracker, st.calls, FALSE)
    ELSE LET rc == PublishRc(env.client, topic)
             cs == Append(st.calls, Call("publish", topic, EmptyText, TRUE, 0, rc))
         IN IF rc = "MQTT_ERR_SUCCESS"
            THEN Published(TrackerPop(st.tracker, topic), cs, TRUE)
            ELSE Published(st.tracker, cs, FALSE)

\* for topic in topics_to_clean: self.clear_retained_message(topic)
RECURSIVE ClearEach(_, _, _)
ClearEach(st, env, topics) ==
    IF topics = <<>>
    THEN st
    ELSE ClearEach(clear_retained_message(st, env, Head(topics)), env, Tail(topics))

\* cleanup_retained_messages(device_id): the details and status topics, then
\* the tracked topics that contain /device/<device_id>/zone/
cleanup_retained_messages(st, env, device_id) ==
    IF ~env.connected
    THEN Published(st.tracker, st.calls, FALSE)
    ELSE LET topics_to_clean ==
                 << DeviceTopic(device_id, "details"), DeviceTopic(device_id, "status") >>
                 \o ListOf({topic \in DOMAIN st.tracker : ContainsDeviceZone(topic, device_id)})
             done == ClearEach(st, env, topics_to_clean)
         IN Published(done.tracker, done.calls, TRUE)

\* zone_number.isdigit(), of a key of zones
IsDigit(s) == s \in DOMAIN IntTable /\ IntTable[s] >= 0

\* for zone_number, zone_data in zones.items(): publish_zone_info for the digit keys
RECURSIVE PublishZones(_, _, _, _, _)
PublishZones(st, env, device_id, zones, keys) ==
    IF keys = <<>>
    THEN st
    ELSE LET zone_number == Head(keys)
             next == IF IsDigit(zone_number)
                     THEN publish_zone_info(st, env, device_id, IntTable[zone_number],
                                            zones.f[zone_number], FALSE)
                     ELSE st
         IN PublishZones(next, env, device_id, zones, Tail(keys))

\* publish_device_data(device_id, device_data): the status (the JSON text of
\* the watering status, given to publish_device_status as its data), the
\* details, retained, and the zones; the results of the three are not read
publish_device_data(st, env, device_id, device_data) ==
    IF ~env.connected
    THEN Published(st.tracker, st.calls, FALSE)
    ELSE IF ~IsObj(device_data) \/ ~IsObj(DictGet(device_data, "status", EmptyObj))
    THEN \* .get raises AttributeError: the except branch
         Published(st.tracker, st.calls, FALSE)
    ELSE LET status == DictGet(device_data, "status", EmptyObj)
             zones == DictGet(device_data, "zones", EmptyObj)
             watering_status == DictGet(status, "watering_status", JNull)
             status_payload == IF Falsy(watering_status) THEN JStr("") ELSE JText(watering_status)
             s1 == publish_device_status(st, env, device_id, status_payload, FALSE)
             s2 == publish_device_details(s1, env, device_id, device_data, TRUE)
         IN IF Falsy(zones)
            THEN Published(s2.tracker, s2.calls, TRUE)
            ELSE IF ~IsObj(zones)
            THEN \* zones.items() raises AttributeError: the except branch
                 Published(s2.tracker, s2.calls, FALSE)
            ELSE LET s3 == PublishZones(s2, env, device_id, zones, ListOf(Keys(zones))) IN
                 Published(s3.tracker, s3.calls, TRUE)

\* self.mqtt_client.publish(topic, payload), and result.rc == MQTT_ERR_SUCCESS
PublishDirect(st, env, topic, payload) ==
    IF ~env.connected
    THEN Published(st.tracker, st.calls, FALSE)
    ELSE LET rc == BrokerRc(env.client) IN
         Published(st.tracker, Append(st.calls, Call("publish", topic, payload, FALSE, 0, rc)),
                   rc = "MQTT_ERR_SUCCESS")

\* a start_watering that sends the duration in seconds
StartWateringSeconds(st, env, device_id, station, duration_minutes) ==
    PublishDirect(st, env, ZoneSetTopic(device_id, station),
                  json_dumps(JObj([state |-> JStr("ON"),
                                   time |-> JNum(duration_minutes * 60)])))

\* start_watering(device_id, station, duration_minutes)
start_watering(st, env, device_id, station, duration_minutes) ==
    PublishDirect(st, env, ZoneSetTopic(device_id, station),
                  json_dumps(JObj([state |-> JStr("ON"), time |-> JNum(duration_minutes)])))

\* stop_watering(device_id)
stop_watering(st, env, device_id) ==
    PublishDirect(st, env, ZoneSetTopic(device_id, 1), json_dumps(JObj([state |-> JStr("OFF")])))

\* refresh_devices()
refresh_devices(st, env) == PublishDirect(st, env, TopicDeviceRefresh, EmptyText)

\* a publish operation as a step: the tracker and the broker calls it leaves,
\* and the observation of its arguments and of what it returned
Publishes(name, dev, topic, payload, retain, st) ==
    /\ retained_messages' = st.tracker
    /\ calls' = st.calls
    /\ broker_retained' = Deliver(broker_retained, st.calls)
    /\ events' = <<>>
    /\ op' = Op(name, dev, topic, payload, retain, Returned(JBool(st.ret)))
    /\ UNCHANGED <<unsubscribed, event_handlers, snapshot, connVars, since_disconnect, devices,
                   subscribed_topics>>

Fresh == Published(retained_messages, <<>>, FALSE)

PublishWithRetention(topic, payload, retain, qos) ==
    Publishes("publish_with_retention", "", topic, payload, retain,
              publish_with_retention(Fresh, PubEnv, topic, payload, retain, qos))

PublishDeviceStatus(device_id, status_data, retain) ==
    Publishes("publish_device_status", device_id, DeviceTopic(device_id, "status"),
              Text(status_data), retain,
              publish_device_status(Fresh, PubEnv, device_id, status_data, retain))

PublishDeviceDetails(device_id, device_data, retain) ==
    Publishes("publish_device_details", device_id, DeviceTopic(device_id, "details"),
              Text(device_data), retain,
              publish_device_details(Fresh, PubEnv, device_id, device_data, retain))

PublishZoneInfo(device_id, zone_number, zone_data, retain) ==
    Publishes("publish_zone_info", device_id, ZoneTopic(device_id, zone_number),
              Text(zone_data), retain,
              publish_zone_info(Fresh, PubEnv, device_id, zone_number, zone_data, retain))

PublishDeviceMessage(device_id, message_data) ==
    Publishes("publish_device_message", device_id, DeviceTopic(device_id, "message"),
              Text(message_data), FALSE,
              publish_device_message(Fresh, PubEnv, device_id, message_data))

PublishDevicesList(device_ids) ==
    Publishes("publish_devices_list", "", TopicDevices, Text(device_ids), FALSE,
              publish_devices_list(Fresh, PubEnv, device_ids))

PublishDeviceData(device_id, device_data) ==
    Publishes("publish_device_data", device_id, NoTopic, Text(device_data), FALSE,
              publish_device_data(Fresh, PubEnv, device_id, device_data))

ClearRetainedMessage(topic) ==
    Publishes("clear_retained_message", "", topic, EmptyText, TRUE,
              clear_retained_message(Fresh, PubEnv, topic))

CleanupRetainedMessages(device_id) ==
    Publishes("cleanup_retained_messages", device_id, NoTopic, EmptyText, FALSE,
              cleanup_retained_messages(Fresh, PubEnv, device_id))

StartWatering(device_id, station, duration_minutes) ==
    Publishes("start_watering", device_id, ZoneSetTopic(device_id, station),
              Text(JNum(duration_minutes)), FALSE,
              start_watering(Fresh, PubEnv, device_id, station, duration_minutes))

StopWatering(device_id) ==
    Publishes("stop_watering", device_id, ZoneSetTopic(device_id, 1), EmptyText, FALSE,
              stop_watering(Fresh, PubEnv, device_id))

RefreshDevices ==
    Publishes("refresh_devices", "", TopicDeviceRefresh, EmptyText, FALSE,
              refresh_devices(Fresh, PubEnv))

\* the values the callers publish
ZoneFront == JObj([name |-> JStr("Lawn")])
DeviceDataFull ==
    JObj([name |-> JStr("Front"),
          status |-> JObj([watering_status |-> JObj([status |-> JStr("idle")])]),
          zones |-> JObj([x |-> ZoneFront] @@ ("1" :> ZoneFront))])
DeviceDataScalarStatus == JObj([status |-> JStr("ok")])
DeviceDataListZones == JObj([zones |-> JList(<<ZoneFront>>)])
DeviceDataValues == {DeviceDataFull, DeviceDataScalarStatus, DeviceDataListZones, EmptyObj}
\* the topics given to publish_with_retention and clear_retained_message: a
\* device's, and one with a wildcard, which the broker client refuses
DirectTopics == {DeviceTopic("d1", "message"), DeviceTopic("+", "message")}

\* the connection's steps without the wait loop of connect(): the clock stands
NextLink ==
    \/ ConnectBegin
    \/ \E rc \in ConnackCodes : OnConnect(rc)
    \/ ConnectionLost
    \/ OnDisconnect
    \/ AutoReconnect
    \/ Disconnect

\* the bridge with callers that publish
NextPub ==
    \/ NextLink
    \/ \E t \in DirectTopics, retain \in BOOLEAN :
          PublishWithRetention(t, Text(DeviceIdle), retain, 0)
    \/ \E data \in {StatusAuto, EmptyObj}, retain \in BOOLEAN :
          PublishDeviceStatus("d1", data, retain)
    \/ \E d \in DeviceIds, retain \in BOOLEAN : PublishDeviceDetails(d, DetailsFront, retain)
    \/ \E retain \in BOOLEAN : PublishZoneInfo("d1", 1, ZoneFront, retain)
    \/ PublishDeviceMessage("d1", DeviceIdle)
    \/ PublishDevicesList(JList(<<JStr("d1")>>))
    \/ \E data \in DeviceDataValues : PublishDeviceData("d1", data)
    \/ \E t \in DirectTopics : ClearRetainedMessage(t)
    \/ \E d \in DeviceIds : CleanupRetainedMessages(d)
    \/ StartWatering("d1", 1, 5)
    \/ StopWatering("d1")
    \/ RefreshDevices
SpecPub == Init /\ [][NextPub]_vars

\* the messages delivered next to the other operations: one for each device
\* topic, a devices list, and zone set commands that pass and fail validation
OwnerMessages ==
    { <<DeviceTopic("d1", "status"), Text(StatusAuto)>>,
      <<DeviceTopic("d1", "message"), Text(ChangeMode)>>,
      <<TopicDevices, Text(JList(<<JStr("d2")>>))>>,
      <<ZoneSetTopic("d1", 1), Text(CommandOn)>>,
      <<ZoneSetTopic("d1", 1), Malformed>> }

\* the bridge with its callers and the inbound messages together
NextOwners ==
    \/ NextLink
    \/ \E m \in OwnerMessages : OnMessage(m[1], m[2])
    \/ SubscribeToTopic(DeviceTopic("d1", "status"))
    \/ UnsubscribeFromTopic(DeviceTopic("d1", "status"))
    \/ PublishWithRetention(DeviceTopic("d1", "message"), Text(DeviceIdle), TRUE, 0)
    \/ PublishDeviceStatus("d1", StatusAuto, FALSE)
    \/ PublishDeviceDetails("d1", DetailsFront, FALSE)
    \/ PublishZoneInfo("d1", 1, ZoneFront, FALSE)
    \/ PublishDeviceMessage("d1", DeviceIdle)
    \/ PublishDevicesList(JList(<<JStr("d1")>>))
    \/ PublishDeviceData("d1", EmptyObj)
    \/ ClearRetainedMessage(DeviceTopic("d1", "message"))
    \/ CleanupRetainedMessages("d1")
    \/ StartWatering("d1", 1, 5)
    \/ StopWatering("d1")
    \/ RefreshDevices
SpecOwners == Init /\ [][NextOwners]_vars

(***************************************************************************)
(* The gateway (bhyve_mqtt_gateway.py), which publishes through the client *)
(***************************************************************************)
\* await v, for the value v a plain method returned: publish_device_details,
\* publish_device_status and publish_zone_info are not coroutine functions,
\* they return a bool, and a bool cannot be awaited
AwaitValue(v) == Raised("TypeError")

\* for i, zone in enumerate(zones): await publish_zone_info(device_id, i, zone)
RECURSIVE GatewayPublishZones(_, _, _, _, _)
GatewayPublishZones(st, env, device_id, zones, i) ==
    IF i >= Len(zones) THEN st
    ELSE LET next == publish_zone_info(st, env, device_id, i, zones[i + 1], FALSE) IN
         IF AwaitValue(JBool(next.ret)).raised THEN next
         ELSE GatewayPublishZones(next, env, device_id, zones, i + 1)

\* the status_data of _publish_device_data (its timestamp is left out)
GatewayStatusData(device_id, device_data) ==
    JObj([device_id |-> device_id,
          status |-> DictGet(device_data, "status", EmptyObj),
          watering_status |-> DictGet(device_data, "watering_status", EmptyObj),
          is_watering |-> DictGet(device_data, "is_watering", JBool(FALSE)),
          run_mode |-> DictGet(device_data, "run_mode", JStr("unknown"))])

\* BhyveMQTTGateway._publish_device_data(device_data): an exception ends the
\* try block and is logged
_publish_device_data(st, env, device_data) ==
    LET device_id == DictGet(device_data, "id", JNull) IN
    IF Falsy(device_id) THEN st
    ELSE LET s1 == publish_device_details(st, env, device_id.s, device_data, TRUE) IN
         IF AwaitValue(JBool(s1.ret)).raised THEN s1
         ELSE LET s2 == publish_device_status(s1, env, device_id.s,
                                              GatewayStatusData(device_id, device_data), FALSE)
              IN IF AwaitValue(JBool(s2.ret)).raised THEN s2
                 ELSE GatewayPublishZones(s2, env, device_id.s,
                                          DictGet(device_data, "zones", JList(<<>>)).l, 0)

GatewayPublishDeviceData(device_data) ==
    Publishes("_publish_device_data", "", NoTopic, Text(device_data), FALSE,
              _publish_device_data(Fresh, PubEnv, device_data))

\* the device records the gateway publishes: with two zones, without zones,
\* and with an empty id
GatewayRecords ==
    { JObj([id |-> JStr("d1"), name |-> JStr("Front"),
            zones |-> JList(<<ZoneFront, ZoneFront>>)]),
      JObj([id |-> JStr("d2"), name |-> JStr("Back")]),
      JObj([id |-> JStr(""), name |-> JStr("Front")]) }

\* the gateway and the connection
NextGateway ==
    \/ NextLink
    \/ \E device_data \in GatewayRecords : GatewayPublishDeviceData(device_data)
SpecGateway == Init /\ [][NextGateway]_vars

\* the stations and durations the callers water with
WateredStations == DOMAIN StationStr
WateringMinutes == {1, 5, 999}

\* the broker delivers to the bridge, which subscribes to the zone set
\* topics, the message the bridge has just published
Loopback ==
    /\ Len(calls) = 1
    /\ calls[1].call = "publish"
    /\ calls[1].rc = "MQTT_ERR_SUCCESS"
    /\ OnMessage(calls[1].topic, calls[1].payload)

\* the bridge with callers that water, and a broker that delivers the zone
\* set commands published to it
NextLoop ==
    \/ NextLink
    \/ \E d \in DeviceIds, station \in WateredStations, m \in WateringMinutes :
          StartWatering(d, station, m)
    \/ \E d \in DeviceIds : StopWatering(d)
    \/ Loopback
SpecLoop == Init /\ [][NextLoop]_vars

(***************************************************************************)
(* Claims about the publisher and the tracker, checked under SpecPub       *)
(***************************************************************************)
\* the operations that publish one message through publish_with_retention
SinglePublishOperations ==
    {"publish_with_retention", "publish_device_status", "publish_device_details",
     "publish_zone_info", "publish_device_message", "publish_devices_list"}
PublishedTo(o) == o.name \in SinglePublishOperations /\ o.ret = True
Tracked == DOMAIN retained_messages

\* C5, for the operations that publish: while connected is false each returns
\* False, makes no broker call and leaves the tracker and the registry unchanged.
C5_PublishRejected ==
    [][ (~connected /\ op'.name \in PublishOperations)
        => /\ op'.ret = False
           /\ calls' = <<>>
           /\ retained_messages' = retained_messages
           /\ subscribed_topics' = subscribed_topics
      ]_vars

\* C6: after a successful publish to t with retain = true the tracker contains
\* t, and after a successful publish to t with retain = false that follows it
\* the tracker does not contain t.
C6_RetainThenUnretain ==
    [][ /\ (PublishedTo(op') /\ op'.retain) => op'.topic \in DOMAIN retained_messages'
        /\ (/\ PublishedTo(op) /\ op.retain
            /\ PublishedTo(op') /\ ~op'.retain
            /\ op'.topic = op.topic)
            => /\ op.topic \in Tracked
               /\ op'.topic \notin DOMAIN retained_messages'
      ]_vars

\* an unretained status of d1 has been published and its topic is not tracked,
\* while d1's details are
C6_Witness ==
    /\ op.name = "publish_device_status"
    /\ op.dev = "d1"
    /\ ~op.retain
    /\ op.ret = True
    /\ DeviceTopic("d1", "status") \notin Tracked
    /\ DeviceTopic("d1", "details") \in Tracked

\* the topic references device D: bhyve/device/D/...
References(topic, D) == Len(topic) > 3 /\ StartsWithDevice(topic) /\ topic[3] = D
\* the topics cleanup_retained_messages(D) lists: details, status and zones
ListedForCleanup(topic, D) ==
    topic \in {DeviceTopic(D, "details"), DeviceTopic(D, "status")} \/ ContainsDeviceZone(topic, D)

\* C7: after cleanup_retained_messages(D) has run while connected the tracker
\* holds no entry whose topic references D, and every entry whose topic
\* references another device, or none, is as it was.
C7_CleanupRemovesDevice ==
    [][ (connected /\ op'.name = "cleanup_retained_messages")
        => /\ \A t \in DOMAIN retained_messages' : ~References(t, op'.dev)
           /\ \A t \in Tracked :
                 ~References(t, op'.dev)
                     => t \in DOMAIN retained_messages' /\ retained_messages'[t] = retained_messages[t]
      ]_vars

\* C7 for the topics the code lists and a broker client that accepts the
\* clearing publishes: those of D are gone and every other entry, D's message
\* topic among them, is as it was.
C7_ListedTopicsCleared ==
    [][ (connected /\ SocketOpen(client) /\ op'.name = "cleanup_retained_messages")
        => /\ \A t \in DOMAIN retained_messages' : ~ListedForCleanup(t, op'.dev)
           /\ \A t \in Tracked :
                 ~ListedForCleanup(t, op'.dev)
                     => t \in DOMAIN retained_messages' /\ retained_messages'[t] = retained_messages[t]
      ]_vars

(***************************************************************************)
(* Claims about the connection supervisor, checked under SpecConn, and     *)
(* under SpecSubs where the registry matters                               *)
(***************************************************************************)
\* the step is _on_connect with the result code rc
IsOnConnect(o, rc) == o.name = "on_connect" /\ o.payload = Text(JNum(rc))
\* the topics _on_connect is to subscribe: the registry's, or the default
\* topics when the registry is empty
TopicsToSubscribe(topics) == IF topics # {} THEN topics ELSE RegistryTopics
AlivePublish(c) ==
    c.call = "publish" /\ c.topic = TopicAlive /\ c.payload.k = "time" /\ ~c.retain
OnlinePublish(c) ==
    c.call = "publish" /\ c.topic = TopicOnline /\ c.payload = Text(JBool(TRUE)) /\ c.retain

\* C11: _on_connect with rc = 0 sets connected, resets the retry counter to
\* 0, issues one subscribe for each topic of the registry, or for each default
\* topic when the registry is empty, and after the subscribes publishes the
\* liveness timestamp on bhyve/alive and a retained "true" on bhyve/online.
C11_SuccessfulConnection ==
    [][ IsOnConnect(op', 0) =>
            LET expected == TopicsToSubscribe(subscribed_topics)
                n == Cardinality(expected)
            IN /\ connected'
               /\ retry_count' = 0
               /\ Len(calls') = n + 2
               /\ \A i \in 1..n : calls'[i].call = "subscribe"
               /\ {calls'[i].topic : i \in 1..n} = expected
               /\ \E i, j \in {n + 1, n + 2} :
                      i # j /\ AlivePublish(calls'[i]) /\ OnlinePublish(calls'[j]) ]_vars

\* a reconnection that resubscribed a registry holding a caller's topic and
\* then published the two messages
C11_Witness ==
    /\ IsOnConnect(op, 0)
    /\ connected
    /\ retry_count = 0
    /\ SubscribeCallsFor(calls, DeviceTopic("d1", "status")) # {}
    /\ \E i \in DOMAIN calls : OnlinePublish(calls[i])
    /\ \E i \in DOMAIN calls : AlivePublish(calls[i])

\* the step fires the max_retries_exceeded event
ExhaustionSignalled(evs) == \E i \in DOMAIN evs : evs[i].type = "max_retries_exceeded"

\* C12: every step that raises the retry counter to max_retries or above (a
\* refusal reported to _on_connect, the timeout of connect()'s wait, or an
\* exception of the broker client's connect) fires max_retries_exceeded.
C12_ExhaustionSignalled ==
    [][ (retry_count' > retry_count /\ retry_count' >= MaxRetries)
            => ExhaustionSignalled(events') ]_vars

\* the calls of the broker client's connect among cs
ConnectCalls(cs) == {i \in DOMAIN cs : cs[i].call = "connect"}

\* C13: while the retry counter is greater than or equal to max_retries,
\* connect() does not call the broker client's connect.
C13_NoAttemptAtMaximum ==
    [][ (op'.name = "connect" /\ retry_count >= MaxRetries)
            => ConnectCalls(calls') = {} ]_vars

\* the step ends a call of connect() that waited and returns False
ConnectTimesOut == pc = "waiting" /\ pc' = "idle" /\ op'.name = "connect" /\ op'.ret = False
\* the step is a call of connect() in which the broker client's connect raises
ConnectRaises ==
    op'.name = "connect" /\ \E i \in ConnectCalls(calls') : calls'[i].rc = "raised"

\* C14: a call of connect() that ends without a connection leaves the retry
\* counter exactly 1 above its value when the call began, whatever
\* _on_connect reported during the call; _on_connect with rc = 0 resets the
\* counter to 0.
C14_OneIncrementPerAttempt ==
    [][ /\ ConnectTimesOut => retry_count' = retry_count_at_call + 1
        /\ ConnectRaises => retry_count' = retry_count + 1
        /\ IsOnConnect(op', 0) => retry_count' = 0 ]_vars

\* a connection attempt has been made: only an attempt starts the network
\* loop, raises the retry counter or leads to the registry's first topics
AttemptedBefore == loop \/ retry_count > 0 \/ subscribed_topics # {}

\* C15: a call of connect() made less than reconnect_period after the
\* previous attempt returns False without calling the broker client's
\* connect, and changes neither the retry counter nor the recorded time of the
\* last attempt.
C15_Throttled ==
    [][ (/\ op'.name = "connect"
         /\ pc = "idle"
         /\ AttemptedBefore
         /\ now - last_connect_attempt < ReconnectPeriod)
            => /\ op'.ret = False
               /\ ConnectCalls(calls') = {}
               /\ retry_count' = retry_count
               /\ last_connect_attempt' = last_connect_attempt ]_vars

\* a call of connect() refused by the throttle after a failed attempt
C15_ThrottledAfterFailure ==
    [][ (/\ op'.name = "connect"
         /\ pc = "idle"
         /\ retry_count > 0
         /\ now - last_connect_attempt < ReconnectPeriod)
            => /\ op'.ret = False
               /\ ConnectCalls(calls') = {}
               /\ retry_count' = retry_count
               /\ last_connect_attempt' = last_connect_attempt ]_vars

\* C16: disconnect() raises nothing and leaves connected = False with the
\* signal handlers restored in every state, and a disconnect() that follows a
\* disconnect() changes no field of the client.
C16_DisconnectIdempotent ==
    [][ op'.name = "disconnect" =>
            /\ ~op'.ret.raised
            /\ ~connected'
            /\ ~signal_handlers'
            /\ ~loop'
            /\ (op.name = "disconnect" =>
                    UNCHANGED <<connVars, devices, subscribed_topics, retained_messages>>) ]_vars

\* a second disconnect() right after the first
C16_Witness ==
    /\ op.name = "disconnect"
    /\ op.again
    /\ ~connected
    /\ ~signal_handlers
    /\ subscribed_topics # {}

\* the operations that request a shutdown
ShutdownRequests == {"request_shutdown", "signal_handler", "disconnect"}

\* C17: a shutdown request (request_shutdown(), the signal handler or
\* disconnect()) leaves the network loop stopped and the signal handlers
\* restored, and a connect() called after it returns False without calling
\* the broker client's connect.
C17_ShutdownStopsEverything ==
    [][ /\ op'.name \in ShutdownRequests => (~loop' /\ ~signal_handlers')
        /\ (op.name \in ShutdownRequests /\ op'.name = "connect" /\ pc = "idle")
               => (op'.ret = False /\ ConnectCalls(calls') = {}) ]_vars

\* once the flag is set, connect() is refused
C17_FlagRefusesConnect ==
    [][ (shutdown_requested /\ op'.name = "connect" /\ pc = "idle")
            => (op'.ret = False /\ ConnectCalls(calls') = {}) ]_vars

(***************************************************************************)
(* Claims about malformed messages, checked under SpecInbound              *)
(***************************************************************************)
\* the events that report a device's state, a devices list or a command
StateEventTypes ==
    {"device_status", "device_details", "device_message", "devices_list",
     "watering_started", "watering_completed", "mode_changed", "zone_control_command"}
StateEvents(evs) == {i \in DOMAIN evs : evs[i].type \in StateEventTypes}
IsMalformedMessage(o) == o.name = "on_message" /\ o.payload = Malformed

\* C18: a message with a malformed payload, on a status, details, message,
\* devices or zone set topic, raises nothing out of _on_message, leaves the
\* device store unchanged and fires no state event, and every message is
\* routed after it as it would have been routed before it.
C18_MalformedDropped ==
    [][ IsMalformedMessage(op') =>
            /\ ~op'.ret.raised
            /\ devices' = devices
            /\ StateEvents(events') = {}
            /\ \A m \in InboundMessages :
                   RouteMessage(devices', m[1], m[2]) = RouteMessage(devices, m[1], m[2]) ]_vars

\* a malformed status message for a device the store does not hold, after
\* another device's record was stored
C18_Witness ==
    /\ IsMalformedMessage(op)
    /\ op.topic = DeviceTopic("d2", "status")
    /\ "d1" \in DOMAIN devices
    /\ "d2" \notin DOMAIN devices
    /\ events = <<>>

(***************************************************************************)
(* Claims about zone set messages, checked under SpecZone                  *)
(***************************************************************************)
\* the text of a non-negative station number
IsStationText(x) == x \in {StationStr[n] : n \in DOMAIN StationStr}
\* bhyve/device/<id>/zone/<station>/set with a non-empty id and a
\* non-negative integer station
HasZoneSetShape(t) ==
    /\ Len(t) = 6
    /\ t[1] = "bhyve" /\ t[2] = "device" /\ t[4] = "zone" /\ t[6] = "set"
    /\ t[3] # ""
    /\ IsStationText(t[5])
EventsOfType(evs, type) == {i \in DOMAIN evs : evs[i].type = type}

\* C19: for a message on a zone set topic, a payload that fails validation
\* fires command_validation_error with the topic and the error text and no
\* zone_control_command, a payload that passes fires zone_control_command
\* exactly once and no command_validation_error, and nothing is raised.
C19_ValidationErrorReported ==
    [][ (op'.name = "on_message" /\ HasZoneSetShape(op'.topic) /\ ~IsBlank(op'.topic[3])) =>
            LET command == validate_command(op'.payload) IN
            /\ ~op'.ret.raised
            /\ command.raised =>
                   /\ EventsOfType(events', "zone_control_command") = {}
                   /\ events' = <<Fired("command_validation_error", "", op'.topic, command.v)>>
            /\ ~command.raised =>
                   /\ Cardinality(EventsOfType(events', "zone_control_command")) = 1
                   /\ EventsOfType(events', "command_validation_error") = {} ]_vars

\* an ON command without its time, reported for the topic it came on
C19_Witness ==
    /\ op.name = "on_message"
    /\ op.topic = ZoneSetTopic("d1", 1)
    /\ op.payload = Text(JObj([state |-> JStr("ON")]))
    /\ EventsOfType(events, "command_validation_error") # {}

\* C20: zone_control_command is fired only for a topic of the shape
\* bhyve/device/<id>/zone/<station>/set; a topic with fewer or more segments,
\* a station that is no number or a negative station fires
\* command_validation_error and no zone_control_command; and the event
\* carries the device id and the station of the topic.
C20_TopicShape ==
    [][ op'.name = "on_message" =>
            /\ ~HasZoneSetShape(op'.topic) =>
                   /\ EventsOfType(events', "zone_control_command") = {}
                   /\ EventsOfType(events', "command_validation_error") # {}
            /\ HasZoneSetShape(op'.topic) =>
                   \A i \in EventsOfType(events', "zone_control_command") :
                       /\ events'[i].dev = op'.topic[3]
                       /\ events'[i].data.f["station"] = ParseInt(op'.topic[5]).v ]_vars

\* a topic of the right shape carries its id and station into the event;
\* too few segments, a blank id and a bad station are validation failures
C20_SixSegmentsChecked ==
    [][ (op'.name = "on_message" /\ Len(op'.topic) <= 6 /\ op'.topic[4] = "zone") =>
            /\ ~HasZoneSetShape(op'.topic) =>
                   /\ EventsOfType(events', "zone_control_command") = {}
                   /\ EventsOfType(events', "command_validation_error") # {}
            /\ HasZoneSetShape(op'.topic) =>
                   \A i \in EventsOfType(events', "zone_control_command") :
                       /\ events'[i].dev = op'.topic[3]
                       /\ events'[i].data.f["station"] = ParseInt(op'.topic[5]).v ]_vars

\* the command a zone set message carries, as it was sent
SentCommand(o) == json_loads(o.payload).v
SentState(o) == Upper(SentCommand(o).f["state"].s)

\* C21: the message built for a validated command on station s of device D
\* is a change_mode message for D with mode manual; its stations are the one
\* station s with the command's time as run_time when the state is ON, and
\* none when the state is OFF, with or without a time.
C21_CommandTranslated ==
    [][ op'.name = "on_message" =>
            \A i \in EventsOfType(events', "zone_control_command") :
                LET ws_message == events'[i].data.f["ws_message"]
                    D == op'.topic[3]
                    s == ParseInt(op'.topic[5]).v
                IN /\ ws_message.f["event"] = JStr("change_mode")
                   /\ ws_message.f["device_id"] = JStr(D)
                   /\ ws_message.f["mode"] = JStr("manual")
                   /\ SentState(op') \in {"ON", "OFF"}
                   /\ SentState(op') = "ON" =>
                          ws_message.f["stations"] =
                              JList(<<JObj([station |-> s,
                                           run_time |-> SentCommand(op').f["time"]])>>)
                   /\ SentState(op') = "OFF" => ws_message.f["stations"] = JList(<<>>) ]_vars

\* an OFF command that carries a time, translated to no station
C21_Witness ==
    /\ op.name = "on_message"
    /\ op.topic = ZoneSetTopic("d1", 1)
    /\ op.payload = Text(JObj([state |-> JStr("OFF"), time |-> JNum(5)]))
    /\ EventsOfType(events, "zone_control_command") # {}
    /\ \A i \in EventsOfType(events, "zone_control_command") :
           events[i].data.f["ws_message"].f["stations"] = JList(<<>>)

(***************************************************************************)
(* Claims about the snapshots of the device store, checked under           *)
(* SpecSnapshot                                                            *)
(***************************************************************************)
\* C22: the dict a call of get_devices() returned reads, after every later
\* sequence of inbound messages, as it read when it was returned, the fields
\* of each device record included.
C22_SnapshotStable == snapshot.taken => SnapshotContent = snapshot.returned

\* the dict itself is a copy: the ids it holds stay, and a record that a
\* /details message replaced in the store stays in it as it was
C22_SnapshotKeepsRebound ==
    snapshot.taken =>
        \A d \in DOMAIN snapshot.returned \ snapshot.shared :
            SnapshotContent[d] = snapshot.returned[d]

(***************************************************************************)
(* Claims about the tracker and the broker, checked under SpecPub          *)
(***************************************************************************)
\* C23: every topic present in the retained-message tracker has a retained
\* value held by the broker.
C23_TrackedIsRetained == DOMAIN retained_messages \subseteq broker_retained

\* the tracker's entries with a payload that is not empty are held by the
\* broker
C23_NonEmptyTrackedIsRetained ==
    \A t \in DOMAIN retained_messages :
        retained_messages[t].payload # EmptyText => t \in broker_retained

\* a device record with an object for its status and for its zones, where it
\* has them
IsDeviceRecord(v) ==
    /\ IsObj(v)
    /\ IsObj(DictGet(v, "status", EmptyObj))
    /\ IsObj(DictGet(v, "zones", EmptyObj))
\* the topics of the sub-publishes of publish_device_data(D, record): the
\* status, the details, and one per zone of the record
SubPublishTopics(D, record) ==
    {DeviceTopic(D, "status"), DeviceTopic(D, "details")}
        \cup {ZoneTopic(D, IntTable[k]) : k \in {z \in Keys(DictGet(record, "zones", EmptyObj)) :
                                                    IsDigit(z)}}
AllAccepted(cs) == \A i \in DOMAIN cs : cs[i].rc = "MQTT_ERR_SUCCESS"

\* C24: publish_device_data(id, record), while connected, makes every
\* sub-publish (status, details, one per zone) whether or not an earlier one
\* failed, and returns True only if the broker client accepted all of them.
C24_AllOrFailure ==
    [][ (/\ op'.name = "publish_device_data"
         /\ connected
         /\ IsDeviceRecord(op'.payload.v))
            => /\ {calls'[i].topic : i \in DOMAIN calls'} = SubPublishTopics(op'.dev, op'.payload.v)
               /\ Len(calls') = Cardinality(SubPublishTopics(op'.dev, op'.payload.v))
               /\ op'.ret = True <=> AllAccepted(calls') ]_vars

\* every sub-publish is attempted, whatever the broker client returned for
\* the ones before it
C24_EverySubPublishAttempted ==
    [][ (/\ op'.name = "publish_device_data"
         /\ connected
         /\ IsDeviceRecord(op'.payload.v))
            => /\ {calls'[i].topic : i \in DOMAIN calls'} = SubPublishTopics(op'.dev, op'.payload.v)
               /\ Len(calls') = Cardinality(SubPublishTopics(op'.dev, op'.payload.v)) ]_vars

(***************************************************************************)
(* Claims about the events of a /message, checked under SpecRouter         *)
(***************************************************************************)
\* the semantic event of a discriminant
SemanticEvent ==
    ("watering_in_progress_notification" :> "watering_started")
        @@ ("watering_complete" :> "watering_completed")
        @@ ("change_mode" :> "mode_changed")
KnownDiscriminant(o) == \E e \in DOMAIN SemanticEvent : CarriesEvent(o, e)
EventTypes(evs) == [i \in DOMAIN evs |-> evs[i].type]

\* C25: a /message with a known discriminant fires device_message first and
\* its semantic event after it, each exactly once.
C25_DeviceMessageFirst ==
    [][ (IsRouted(op', "message") /\ KnownDiscriminant(op'))
            => EventTypes(events') =
                   <<"device_message", SemanticEvent[op'.payload.v.f["event"].s]>> ]_vars

\* for a device the store holds no record of, the two events are fired once
\* each, the semantic event first
C25_SemanticEventFirst ==
    [][ (/\ IsRouted(op', "message")
         /\ KnownDiscriminant(op')
         /\ RoutedDevice(op') \notin DOMAIN devices)
            => EventTypes(events') =
                   <<SemanticEvent[op'.payload.v.f["event"].s], "device_message">> ]_vars

(***************************************************************************)
(* Claims about unsubscribing, checked under SpecSubs                      *)
(***************************************************************************)
\* C26: unsubscribe_from_topic(t) issues one broker unsubscribe for t; when
\* the broker client accepts it, t is no longer in the registry; a topic that
\* was not in the registry leaves the registry as it was; and every other
\* topic of the registry is kept, none added
C26_UnsubscribeRemovesOnlyTopic ==
    [][ op'.name = "unsubscribe_from_topic"
            => /\ Len(calls') = 1
               /\ calls'[1].call = "unsubscribe"
               /\ calls'[1].topic = op'.topic
               /\ calls'[1].rc = "MQTT_ERR_SUCCESS" => op'.topic \notin subscribed_topics'
               /\ op'.topic \notin subscribed_topics => subscribed_topics' = subscribed_topics
               /\ subscribed_topics' \ {op'.topic} = subscribed_topics \ {op'.topic} ]_vars

\* the device directory topic, subscribed at the connect, has been
\* unsubscribed from, and the other five default topics are still there
C26_Witness ==
    /\ op.name = "unsubscribe_from_topic"
    /\ op.topic = TopicDevices
    /\ calls[1].rc = "MQTT_ERR_SUCCESS"
    /\ subscribed_topics = RegistryTopics \ {TopicDevices}

(***************************************************************************)
(* Claims about the returned command, checked under SpecCmd                *)
(***************************************************************************)
\* the command validate_command returned
ReturnedCommand == op.ret.v
ReturnedState == ReturnedCommand.f["state"].s

\* C27: every command validate_command returns has, when its state is ON, a
\* time that is a number in 1..999, and, when its state is OFF, no time field
C27_ValidatedCommandInvariant ==
    (op.name = "validate_command" /\ Accepted) =>
        /\ ReturnedState = "ON" =>
               "time" \in Keys(ReturnedCommand) /\ TimeInRange(ReturnedCommand)
        /\ ReturnedState = "OFF" => "time" \notin Keys(ReturnedCommand)

\* the ON half: a returned command is ON or OFF, and an ON command has a
\* time in 1..999
C27_OnHasTimeInRange ==
    (op.name = "validate_command" /\ Accepted) =>
        /\ ReturnedState \in {"ON", "OFF"}
        /\ ReturnedState = "ON" =>
               "time" \in Keys(ReturnedCommand) /\ TimeInRange(ReturnedCommand)

(***************************************************************************)
(* Claims about the default subscriptions, checked under SpecZoneSubs      *)
(***************************************************************************)
\* bhyve/device/<id or +>/zone/<station or +>/set
IsZoneSetPattern(t) ==
    /\ Len(t) = 6
    /\ t[1] = "bhyve" /\ t[2] = "device" /\ t[4] = "zone" /\ t[6] = "set"
\* the directory topic, the refresh topic and the three per-device patterns
AlwaysSubscribed ==
    { TopicDevices, TopicDeviceRefresh, DeviceTopic("+", "status"),
      DeviceTopic("+", "details"), DeviceTopic("+", "message") }
\* the zones of the list the last subscribe_to_device_zone_topics was given
ZonesGiven(o) == {o.payload.v.l[i].n : i \in DOMAIN o.payload.v.l}

\* C28: a successful connect that finds the registry empty leaves in it the
\* directory topic, the refresh topic and the three per-device patterns and
\* no zone set pattern; a zone set topic enters the registry only in
\* subscribe_to_device_zone_topics(D, zones), as the set topic of D and of
\* one of the zones
C28_ZoneSetOnDemand ==
    [][ /\ (IsOnConnect(op', 0) /\ subscribed_topics = {})
            => /\ AlwaysSubscribed \subseteq subscribed_topics'
               /\ \A t \in subscribed_topics' : ~IsZoneSetPattern(t)
        /\ \A t \in subscribed_topics' \ subscribed_topics :
               IsZoneSetPattern(t)
                   => /\ op'.name = "subscribe_to_device_zone_topics"
                      /\ \E z \in ZonesGiven(op') : t = ZoneSetTopic(op'.dev, z) ]_vars

\* a successful connect that finds the registry empty leaves in it the five
\* topics and the pattern bhyve/device/+/zone/+/set, and nothing else
C28_DefaultTopicsSubscribed ==
    [][ (IsOnConnect(op', 0) /\ subscribed_topics = {})
            => subscribed_topics' =
                   AlwaysSubscribed \cup {<<"bhyve", "device", "+", "zone", "+", "set">>} ]_vars

\* subscribe_to_device_zone_topics(D, zones) adds to the registry only set
\* topics of D and of the zones given, and, with a socket, each of them
C28_PerDevicePerZone ==
    [][ op'.name = "subscribe_to_device_zone_topics"
            => /\ subscribed_topics' \ subscribed_topics
                      \subseteq {ZoneSetTopic(op'.dev, z) : z \in ZonesGiven(op')}
               /\ SocketOpen(client)
                      => {ZoneSetTopic(op'.dev, z) : z \in ZonesGiven(op')}
                             \subseteq subscribed_topics' ]_vars

(***************************************************************************)
(* Claims about the writers of the shared state, checked under SpecSubs    *)
(* and SpecPub                                                             *)
(***************************************************************************)
\* the operations the network loop runs: the broker client's callbacks
LoopCallbacks == {"on_connect", "on_disconnect", "on_message"}
\* the operations of the public API, run by the callers
CallerOperations ==
    { "connect", "disconnect", "subscribe_to_topic", "unsubscribe_from_topic",
      "subscribe_to_device_zone_topics", "publish_with_retention", "publish_device_status",
      "publish_device_details", "publish_zone_info", "publish_device_message",
      "publish_devices_list", "publish_device_data", "clear_retained_message",
      "cleanup_retained_messages", "start_watering", "stop_watering", "refresh_devices" }
\* the step writes the store, the registry or the tracker
WritesShared ==
    \/ devices' # devices
    \/ subscribed_topics' # subscribed_topics
    \/ retained_messages' # retained_messages

\* C29: every write of the Device State Store, the Subscription Registry and
\* the Retained-Message Tracker is made by a callback of the network loop
C29_SingleWriter == [][ WritesShared => op'.name \in LoopCallbacks ]_vars

\* the callers that write are subscribe_to_topic and unsubscribe_from_topic,
\* which write the registry alone
C29_CallersWriteRegistry ==
    [][ (WritesShared /\ op'.name \notin LoopCallbacks)
            => /\ op'.name \in {"subscribe_to_topic", "unsubscribe_from_topic"}
               /\ devices' = devices
               /\ retained_messages' = retained_messages ]_vars

\* among the publish operations the callers that write are those that
\* publish with retention or clear, which write the tracker alone
C29_CallersWriteTracker ==
    [][ (WritesShared /\ op'.name \notin LoopCallbacks)
            => /\ op'.name \in CallerOperations \ {"connect", "disconnect"}
               /\ devices' = devices
               /\ subscribed_topics' = subscribed_topics ]_vars

(***************************************************************************)
(* Claims about faults in message handling, checked under SpecHandlers     *)
(***************************************************************************)
\* a handler that raises is registered for one of the events evs
RaisingHandlerCalled(handlers, evs) ==
    \E i \in DOMAIN evs :
        evs[i].type \in DOMAIN handlers /\ handlers[evs[i].type] = "raises"

\* C30: _on_message returns normally for every topic and payload, whatever
\* the registered handlers do, and the message delivered after it is routed:
\* the store and the events are those of the router for that message
C30_NoFaultEscapes ==
    [][ op'.name = "on_message"
            => /\ op'.ret = Normal
               /\ op.name = "on_message"
                      => /\ devices' = RouteMessage(devices, op'.topic, op'.payload).devices
                         /\ events' = RouteMessage(devices, op'.topic, op'.payload).events ]_vars

\* a status message was delivered, the handler registered for device_status
\* was called and raised, and _on_message returned normally
C30_Witness ==
    /\ op.name = "on_message"
    /\ op.topic = DeviceTopic("d1", "status")
    /\ RaisingHandlerCalled(event_handlers, events)
    /\ op.ret = Normal

(***************************************************************************)
(* Claims about the owner of the device store, checked under SpecOwners    *)
(***************************************************************************)
\* the message is routed to the status, details or message branch
IsStoreTopic(topic) ==
    /\ StartsWithDevice(topic)
    /\ ~(ContainsZone(topic) /\ EndsWith(topic, "set"))
    /\ EndsWith(topic, "status") \/ EndsWith(topic, "details") \/ EndsWith(topic, "message")

\* C31: the device store changes only in _on_message for a /status, /details
\* or /message topic: publishing, clearing, subscribing, unsubscribing,
\* connecting, disconnecting, the connection callbacks, a devices list and a
\* zone set command leave it as it was
C31_StoreWrittenByRouter ==
    [][ devices' # devices => op'.name = "on_message" /\ IsStoreTopic(op'.topic) ]_vars

\* a zone set command has been handled while the store holds a record
C31_Witness ==
    /\ op.name = "on_message"
    /\ op.topic = ZoneSetTopic("d1", 1)
    /\ events # <<>>
    /\ "d1" \in DOMAIN devices

(***************************************************************************)
(* Claims about watering_complete, checked under SpecRouter                *)
(***************************************************************************)
\* the record of device_id holds a watering status that is an object
HasWateringObject(devs, device_id) ==
    /\ device_id \in DOMAIN devs
    /\ IsObj(devs[device_id])
    /\ "watering_status" \in Keys(devs[device_id])
    /\ IsObj(devs[device_id].f["watering_status"])
\* after is before with the status field of its watering status set to idle
\* and every other field of the record and of the watering status kept
OnlyStatusIdle(before, after) ==
    /\ IsObj(after) /\ Keys(after) = Keys(before)
    /\ \A k \in Keys(before) \ {"watering_status"} : after.f[k] = before.f[k]
    /\ LET ws == before.f["watering_status"]
           ws2 == after.f["watering_status"]
       IN /\ IsObj(ws2) /\ Keys(ws2) = Keys(ws) \cup {"status"}
          /\ ws2.f["status"] = JStr("idle")
          /\ \A k \in Keys(ws) \ {"status"} : ws2.f[k] = ws.f[k]
\* the watering_complete message fired watering_completed, once
FiresWateringCompleted(o, evs) ==
    Cardinality(EventsOfType(evs, "watering_completed")) = 1

\* C32: a /message with event watering_complete for D fires watering_completed
\* whatever the record of D is; when the record holds a watering status, only
\* its status field changes, to idle
C32_WateringCompleteAlwaysFires ==
    [][ (IsRouted(op', "message") /\ CarriesEvent(op', "watering_complete"))
            => /\ FiresWateringCompleted(op', events')
               /\ HasWateringObject(devices, RoutedDevice(op'))
                      => OnlyStatusIdle(devices[RoutedDevice(op')],
                                        devices'[RoutedDevice(op')])
               /\ \A d \in DOMAIN devices \ {RoutedDevice(op')} :
                      d \in DOMAIN devices' /\ devices'[d] = devices[d] ]_vars

\* with no record of D, or an object record whose watering status is absent
\* or an object, watering_completed is fired and only the status field changes
C32_FiresOnObjectRecords ==
    [][ (/\ IsRouted(op', "message") /\ CarriesEvent(op', "watering_complete")
         /\ \/ RoutedDevice(op') \notin DOMAIN devices
            \/ HasWateringObject(devices, RoutedDevice(op'))
            \/ /\ IsObj(devices[RoutedDevice(op')])
               /\ "watering_status" \notin Keys(devices[RoutedDevice(op')]))
            => /\ FiresWateringCompleted(op', events')
               /\ HasWateringObject(devices, RoutedDevice(op'))
                      => OnlyStatusIdle(devices[RoutedDevice(op')],
                                        devices'[RoutedDevice(op')])
               /\ ~HasWateringObject(devices, RoutedDevice(op')) => devices' = devices ]_vars

(***************************************************************************)
(* Claims about rejected publishes, checked under SpecPub                  *)
(***************************************************************************)
\* the one publish of the operation was not accepted by the broker client:
\* it returned another result code than success, or raised
PublishRejected(cs) ==
    Len(cs) = 1 /\ cs[1].call = "publish" /\ cs[1].rc # "MQTT_ERR_SUCCESS"

\* C33: while connected, a publish_with_retention or clear_retained_message
\* whose publish the broker client rejects returns False, raises nothing and
\* leaves the tracker as it was, with retain true and with retain false
C33_RejectedPublishKeepsTracker ==
    [][ (/\ connected
         /\ op'.name \in {"publish_with_retention", "clear_retained_message"}
         /\ PublishRejected(calls'))
            => /\ op'.ret = False
               /\ retained_messages' = retained_messages ]_vars

\* a retained publish was rejected while connected and the tracker, which
\* holds an entry, was kept
C33_Witness ==
    /\ connected
    /\ op.name = "publish_with_retention"
    /\ op.retain
    /\ PublishRejected(calls)
    /\ op.ret = False
    /\ DeviceTopic("d1", "message") \in DOMAIN retained_messages
    /\ op.topic \notin DOMAIN retained_messages

C34_WaitNeverBlocked ==
    (pc = "waiting" /\ now < MaxTime /\ retry_count < MaxRetryCount) => ENABLED ConnectWait

C35_ConnectedMeansNoRetries ==
    (pc = "idle" /\ connected) => retry_count = 0

\* the counter is 0 right after every _on_connect that accepts, and right
\* after every connect() that returns True
C35_ResetWhenSeen ==
    [][ (IsOnConnect(op', 0) \/ (op'.name = "connect" /\ op'.ret = True))
            => retry_count' = 0 ]_vars

(***************************************************************************)
(* Claims about unsubscribed topics, checked under SpecUnsubs              *)
(***************************************************************************)
\* C36: a topic a successful unsubscribe_from_topic removed from the registry
\* is not in the registry again, after any reconnect, until the caller
\* subscribes to it again
C36_UnsubscribedStaysOut == subscribed_topics \cap unsubscribed = {}

\* a successful connect that finds topics in the registry leaves the registry
\* as it was: the topics unsubscribed from stay out of it
C36_StaysOutWhileSomeRemain ==
    [][ (IsOnConnect(op', 0) /\ subscribed_topics # {})
            => subscribed_topics' = subscribed_topics ]_vars

(***************************************************************************)
(* Claims about payloads that are no object, checked under SpecRouter      *)
(***************************************************************************)
\* the payload parses, to a number, a string, a list, a boolean or null
CarriesNonObject(o) == o.payload.k = "json" /\ ~IsObj(o.payload.v)
IsStoreMessage(o) == IsRouted(o, "status") \/ IsRouted(o, "details") \/ IsRouted(o, "message")

\* C37: a /status, /details or /message whose payload is valid JSON and not
\* an object leaves the store as it was and fires neither device_status nor
\* device_details
C37_NonObjectDropped ==
    [][ (IsStoreMessage(op') /\ CarriesNonObject(op'))
            => /\ devices' = devices
               /\ EventsOfType(events', "device_status") = {}
               /\ EventsOfType(events', "device_details") = {} ]_vars

\* on /message such a payload leaves the store as it was and fires
\* device_message alone
C37_MessageKeepsStore ==
    [][ (IsRouted(op', "message") /\ CarriesNonObject(op'))
            => /\ devices' = devices
               /\ EventTypes(events') = <<"device_message">> ]_vars

\* on /details such a payload becomes the record of the device and
\* device_details is fired with it
C37_DetailsStoresNonObject ==
    [][ (IsRouted(op', "details") /\ CarriesNonObject(op'))
            => /\ devices'[RoutedDevice(op')] = op'.payload.v
               /\ EventTypes(events') = <<"device_details">> ]_vars

(***************************************************************************)
(* Claims about the bridge's own commands, checked under SpecLoop          *)
(***************************************************************************)
\* the message delivered in this step is the one the operation before it published
DeliversPublished ==
    /\ Len(calls) = 1 /\ calls[1].call = "publish"
    /\ op'.name = "on_message"
    /\ op'.topic = calls[1].topic
    /\ op'.payload = calls[1].payload
\* the zone_control_command event for device_id with station and stations
ZoneCommandFired(evs, device_id, station, stations) ==
    /\ Len(evs) = 1
    /\ evs[1].type = "zone_control_command"
    /\ evs[1].dev = device_id
    /\ evs[1].data.f["station"] = JNum(station)
    /\ evs[1].data.f["ws_message"].f["stations"] = JList(stations)

\* C38: the message start_watering(D, s, m) publishes, routed, fires
\* zone_control_command for D with station s and the stations
\* [{station: s, run_time: m}]; the message stop_watering(D) publishes fires
\* zone_control_command for D with no stations; no command_validation_error
\* is fired for either
C38_OwnCommandsRoundTrip ==
    [][ /\ (op.name = "start_watering" /\ DeliversPublished)
            => \E station \in WateredStations :
                   /\ op.topic = ZoneSetTopic(op.dev, station)
                   /\ ZoneCommandFired(events', op.dev, station,
                                       <<JObj([station |-> JNum(station),
                                               run_time |-> op.payload.v])>>)
        /\ (op.name = "stop_watering" /\ DeliversPublished)
            => ZoneCommandFired(events', op.dev, 1, <<>>) ]_vars

\* the command start_watering("d2", 2, 999) published has been delivered
C38_Witness ==
    /\ op.name = "on_message"
    /\ op.topic = ZoneSetTopic("d2", 2)
    /\ op.payload = Text(JObj([state |-> JStr("ON"), time |-> JNum(999)]))
    /\ connected
    /\ ZoneCommandFired(events, "d2", 2,
                        <<JObj([station |-> JNum(2), run_time |-> JNum(999)])>>)

(***************************************************************************)
(* Claims about the gateway, checked under SpecGateway                     *)
(***************************************************************************)
\* the topics of the publishes among the calls cs, in order
PublishTopics(cs) == [i \in DOMAIN cs |-> cs[i].topic]
\* the zone topics of device_id for the zones of a record, in order
GatewayZoneTopics(device_id, zones) == [i \in DOMAIN zones |-> ZoneTopic(device_id, i - 1)]
\* the record the last _publish_device_data was given
GatewayRecord(o) == o.payload.v

\* C39: for a record with a non-empty id, while connected with the broker
\* accepting publishes, _publish_device_data publishes the details, then
\* the status, then each zone of the record, and skips none of them
C39_AllStepsPublished ==
    [][ (/\ op'.name = "_publish_device_data"
         /\ ~Falsy(DictGet(GatewayRecord(op'), "id", JNull))
         /\ connected /\ SocketOpen(client))
            => LET device_id == GatewayRecord(op').f["id"].s
                   zones == DictGet(GatewayRecord(op'), "zones", JList(<<>>)).l
               IN /\ \A i \in DOMAIN calls' :
                         calls'[i].call = "publish" /\ calls'[i].rc = "MQTT_ERR_SUCCESS"
                  /\ PublishTopics(calls') =
                         << DeviceTopic(device_id, "details"), DeviceTopic(device_id, "status") >>
                             \o GatewayZoneTopics(device_id, zones) ]_vars

\* the details publish, retained, is made and accepted, and is the only one
C39_DetailsAlone ==
    [][ (/\ op'.name = "_publish_device_data"
         /\ ~Falsy(DictGet(GatewayRecord(op'), "id", JNull))
         /\ connected /\ SocketOpen(client))
            => /\ Len(calls') = 1
               /\ calls'[1].topic = DeviceTopic(GatewayRecord(op').f["id"].s, "details")
               /\ calls'[1].retain
               /\ calls'[1].rc = "MQTT_ERR_SUCCESS" ]_vars

====
